---- MODULE Spec2Model ----
(***************************************************************************)
(* A model of defibrillator's GitHub API access layer                      *)
(* (src/defibrillator/github_api.py): the disk cache, the request engine   *)
(* with its retry loop, the retry classification and backoff computation,  *)
(* and the paginator.                                                      *)
(*                                                                         *)
(* Conventions.  A Python str is a sequence of one-character strings (or   *)
(* of opaque tokens where only equality matters).  A Python dict is a      *)
(* function whose DOMAIN is its key set.  Seconds are kept in              *)
(* milliseconds so that the fractional delays of the code stay integers.   *)
(***************************************************************************)
EXTENDS Integers, Sequences, FiniteSets, TLC

(***************************************************************************)
(* Bounds of the model.                                                    *)
(***************************************************************************)
MaxAttemptIdx == 7

(***************************************************************************)
(* Program constants.                                                      *)
(***************************************************************************)
CACHE_MAX_AGE_DAYS == 7
RESET_DELAY_CAP_S == 300
JITTER_RANGE_MS == 250
SecondsPerDay == 86400

(***************************************************************************)
(* Strings.                                                                *)
(***************************************************************************)
UpperChars == <<"A","B","C","D","E","F","G","H","I","J","K","L","M",
                "N","O","P","Q","R","S","T","U","V","W","X","Y","Z">>
LowerChars == <<"a","b","c","d","e","f","g","h","i","j","k","l","m",
                "n","o","p","q","r","s","t","u","v","w","x","y","z">>
DigitChars == <<"0","1","2","3","4","5","6","7","8","9">>

IndexIn(c, chars) == IF \E i \in 1..Len(chars) : chars[i] = c
                     THEN CHOOSE i \in 1..Len(chars) : chars[i] = c
                     ELSE 0

\* str.upper()
Upper(s) == [i \in 1..Len(s) |->
               IF IndexIn(s[i], LowerChars) > 0
               THEN UpperChars[IndexIn(s[i], LowerChars)]
               ELSE s[i]]

\* str.lower()
Lower(s) == [i \in 1..Len(s) |->
               IF IndexIn(s[i], UpperChars) > 0
               THEN LowerChars[IndexIn(s[i], UpperChars)]
               ELSE s[i]]

\* needle in hay
Contains(needle, hay) ==
  \E i \in 1..(Len(hay) - Len(needle) + 1) :
     SubSeq(hay, i, i + Len(needle) - 1) = needle

IsDigit(c) == IndexIn(c, DigitChars) > 0
AllDigits(s) == Len(s) > 0 /\ \A i \in 1..Len(s) : IsDigit(s[i])

RECURSIVE DigitsVal(_)
DigitsVal(s) == IF Len(s) = 0 THEN 0
                ELSE 10 * DigitsVal(SubSeq(s, 1, Len(s) - 1))
                     + (IndexIn(s[Len(s)], DigitChars) - 1)

RECURSIVE Pow(_, _)
Pow(b, n) == IF n = 0 THEN 1 ELSE b * Pow(b, n - 1)

Min(a, b) == IF a <= b THEN a ELSE b

\* seconds to milliseconds
ToMs(sec) == sec * 1000

HasSign(s) == Len(s) > 0 /\ s[1] \in {"-", "+"}
Unsigned(s) == IF HasSign(s) THEN Tail(s) ELSE s
SignOf(s) == IF Len(s) > 0 /\ s[1] = "-" THEN -1 ELSE 1

\* int(s) for decimal literals with an optional sign; ok = FALSE is ValueError.
ParseInt(s) ==
  IF AllDigits(Unsigned(s))
  THEN [ok |-> TRUE, v |-> SignOf(s) * DigitsVal(Unsigned(s))]
  ELSE [ok |-> FALSE, v |-> 0]

DotAt(s) == IndexIn(".", s)
\* the fraction digits as thousandths (at most three digits are modelled)
FracMs(f) == DigitsVal(f) * Pow(10, 3 - Len(f))

\* float(s) for decimal literals [sign] digits [. digits], in milliseconds;
\* ok = FALSE is ValueError.
ParseFloat(s) ==
  LET u == Unsigned(s)
      d == DotAt(u)
      ip == IF d = 0 THEN u ELSE SubSeq(u, 1, d - 1)
      fp == IF d = 0 THEN <<>> ELSE SubSeq(u, d + 1, Len(u))
  IN IF AllDigits(ip) /\ (Len(fp) = 0 \/ (AllDigits(fp) /\ Len(fp) <= 3))
     THEN [ok |-> TRUE,
           v |-> SignOf(s) * (ToMs(DigitsVal(ip)) + FracMs(fp))]
     ELSE [ok |-> FALSE, v |-> 0]

(***************************************************************************)
(* Dicts.                                                                  *)
(***************************************************************************)
EmptyDict == [k \in {} |-> <<>>]
Has(d, k) == k \in DOMAIN d
\* d.get(k, default)
Get(d, k, default) == IF k \in DOMAIN d THEN d[k] ELSE default
\* d[k] = v
Put(d, k, v) == [x \in (DOMAIN d) \cup {k} |-> IF x = k THEN v ELSE d[x]]
\* d.update(e)
Update(d, e) == [x \in (DOMAIN d) \cup (DOMAIN e) |->
                   IF x \in DOMAIN e THEN e[x] ELSE d[x]]

(***************************************************************************)
(* Response bodies.  response.text is kept by what json.loads makes of it: *)
(*   json    "malformed" | "list" | "scalar" | "object"                    *)
(*   msg     for an object: "absent" | "str" | "other" (null, number, ...) *)
(*   message the str under "message"                                       *)
(*   tag     distinguishes texts with the same parse                       *)
(*   items   the elements of a list, or of the list an object holds        *)
(*   key     for an object: the key that holds something                   *)
(*   keyed   what sits under key: "absent" | "list" | "other"              *)
(***************************************************************************)
Body(json, msg, message, tag) ==
  [json |-> json, msg |-> msg, message |-> message, tag |-> tag,
   key |-> "", keyed |-> "absent", items |-> <<>>]

(***************************************************************************)
(* A response of the transport: requests.Response.                         *)
(***************************************************************************)
Response(status, headers, text) ==
  [status |-> status, headers |-> headers, text |-> text]

\* one optional header as a dict of zero or one item
Hdr(name, opt) == IF opt.present THEN (name :> opt.v) ELSE EmptyDict
Absent == [present |-> FALSE, v |-> <<>>]
Val(v) == [present |-> TRUE, v |-> v]

RATE_LIMIT == <<"r","a","t","e"," ","l","i","m","i","t">>
SECONDARY_RATE_LIMIT == <<"s","e","c","o","n","d","a","r","y"," ","r","a","t","e"," ","l","i","m","i","t">>

\* body = response.json(); message = body.get("message", "").lower()
\* raised names the exception the two lines end in, "none" when they succeed.
JsonMessageLower(text) ==
  CASE text.json = "malformed" -> [raised |-> "JSONDecodeError", v |-> <<>>]
    [] text.json \in {"list", "scalar"} -> [raised |-> "AttributeError", v |-> <<>>]
    [] text.json = "object" /\ text.msg = "absent" -> [raised |-> "none", v |-> Lower(<<>>)]
    [] text.json = "object" /\ text.msg = "other" -> [raised |-> "AttributeError", v |-> <<>>]
    [] OTHER -> [raised |-> "none", v |-> Lower(text.message)]

\* _should_retry with the message compared without .lower()
ShouldRetryCaseSensitive(response) ==
  \/ response.status = 429
  \/ response.status >= 500
  \/ /\ response.status = 403
     /\ \/ Get(response.headers, "X-RateLimit-Remaining", <<>>) = <<"0">>
        \/ /\ response.text.json = "object"
           /\ response.text.msg = "str"
           /\ Contains(RATE_LIMIT, response.text.message)

\* a retry decision that takes every client error for a retryable one
ShouldRetryAnyError(response) == response.status >= 400

\* GitHubClient._should_retry
_should_retry(response) ==
  IF response.status = 429 THEN TRUE
  ELSE IF response.status >= 500 THEN TRUE
  ELSE IF response.status = 403
       THEN IF Has(response.headers, "X-RateLimit-Remaining")
               /\ response.headers["X-RateLimit-Remaining"] = <<"0">>
            THEN TRUE
            ELSE LET m == JsonMessageLower(response.text)
                 IN IF m.raised = "none"
                    THEN Contains(RATE_LIMIT, m.v)
                         \/ Contains(SECONDARY_RATE_LIMIT, m.v)
                    ELSE \* except (json.JSONDecodeError, AttributeError): pass
                         FALSE
       ELSE FALSE

\* the exponential rule without its cap
ExponentialDelayUncapped(cfg, attempt) == cfg.backoff_base_ms * Pow(2, attempt)

\* the exponential rule: min(backoff_max_s, backoff_base_s * 2**attempt)
ExponentialDelay(cfg, attempt) ==
  Min(cfg.backoff_max_ms, cfg.backoff_base_ms * Pow(2, attempt))

\* _calculate_retry_delay with the rate-limit reset consulted before Retry-After
CalculateRetryDelayResetFirst(cfg, response, attempt, nowMs, jitter) ==
  LET h == response.headers
      retry_after == Get(h, "Retry-After", <<>>)
      reset_time == Get(h, "X-RateLimit-Reset", <<>>)
      remaining0 == Get(h, "X-RateLimit-Remaining", <<>>) = <<"0">>
  IN IF Len(reset_time) > 0 /\ remaining0 /\ ParseInt(reset_time).ok
     THEN Min(ToMs(ParseInt(reset_time).v) - nowMs + ToMs(1),
              ToMs(RESET_DELAY_CAP_S))
     ELSE IF Len(retry_after) > 0 /\ ParseFloat(retry_after).ok
          THEN ParseFloat(retry_after).v
          ELSE ExponentialDelay(cfg, attempt) + jitter

\* GitHubClient._calculate_retry_delay; nowMs is time.time(), jitter is
\* random.uniform(0, 0.25), both in milliseconds.
_calculate_retry_delay(cfg, response, attempt, nowMs, jitter) ==
  LET h == response.headers
      retry_after == Get(h, "Retry-After", <<>>)
      reset_time == Get(h, "X-RateLimit-Reset", <<>>)
      remaining0 == Has(h, "X-RateLimit-Remaining")
                    /\ h["X-RateLimit-Remaining"] = <<"0">>
  IN IF Len(retry_after) > 0 /\ ParseFloat(retry_after).ok
     THEN ParseFloat(retry_after).v
     ELSE IF Len(reset_time) > 0 /\ remaining0 /\ ParseInt(reset_time).ok
          THEN Min(ToMs(ParseInt(reset_time).v) - nowMs + ToMs(1),
                   ToMs(RESET_DELAY_CAP_S))
          ELSE ExponentialDelay(cfg, attempt) + jitter

(***************************************************************************)
(* The retry policy on its own: one response, classified and timed at      *)
(* attempt indexes 0, 1, 2, ... with a fresh jitter draw each time.        *)
(***************************************************************************)
VARIABLES rt_cfg, rt_response, rt_now, rt_attempt, rt_last

retryVars == <<rt_cfg, rt_response, rt_now, rt_attempt, rt_last>>

\* random.uniform(0, 0.25) lies in [0, 0.25)
JitterSamples == {0, 125, JITTER_RANGE_MS - 1}
JitterEnds == {0, JITTER_RANGE_MS - 1}

RetryStatuses == {200, 403, 404, 429, 500, 503}
RemainingSamples == {Absent, Val(<<"0">>), Val(<<"1">>)}
RetryAfterSamples == {Absent, Val(<<>>), Val(<<"0">>), Val(<<"5">>),
                      Val(<<"1", ".", "5">>), Val(<<"W", "e", "d">>)}
ResetSamples == {Absent, Val(<<"1", "0", "0", "5">>), Val(<<"9", "9", "0">>),
                 Val(<<"1", "e", "3">>)}
RetryNow == ToMs(1000)
RetryBodies ==
  { Body("malformed", "absent", <<>>, "t"),
    Body("list", "absent", <<>>, "t"),
    Body("object", "absent", <<>>, "t"),
    Body("object", "other", <<>>, "t"),
    Body("object", "str", <<"N","o","t"," ","F","o","u","n","d">>, "t"),
    Body("object", "str", <<"r","a","t","e"," ","l","i","m","i","t">>, "t"),
    Body("object", "str", <<"A","P","I"," ","R","a","t","e"," ","L","i","m","i","t"," ","h","i","t">>, "t"),
    Body("object", "str", <<"r","a","t","e","l","i","m","i","t">>, "t") }

RetryResponses ==
  { Response(s, Hdr("X-RateLimit-Remaining", rem) @@ Hdr("Retry-After", ra)
                @@ Hdr("X-RateLimit-Reset", rs), b) :
      s \in RetryStatuses, rem \in RemainingSamples, ra \in RetryAfterSamples,
      rs \in ResetSamples, b \in RetryBodies }

\* backoff_base_s, backoff_max_s: the defaults, and a small maximum
RetryConfigs == { [backoff_base_ms |-> ToMs(1), backoff_max_ms |-> ToMs(60)],
                  [backoff_base_ms |-> 100, backoff_max_ms |-> ToMs(2)] }

NoRetryResult == [valid |-> FALSE, attempt |-> 0, jitter |-> 0,
                  retry |-> FALSE, delay |-> 0]

RetryInit ==
  /\ rt_cfg \in RetryConfigs
  /\ rt_response \in RetryResponses
  /\ rt_now = RetryNow
  /\ rt_attempt = 0
  /\ rt_last = NoRetryResult

\* if self._should_retry(response) ...: delay = self._calculate_retry_delay(...)
RetryStep ==
  /\ rt_attempt <= MaxAttemptIdx
  /\ \E jitter \in JitterSamples :
       rt_last' = [valid |-> TRUE, attempt |-> rt_attempt, jitter |-> jitter,
                   retry |-> _should_retry(rt_response),
                   delay |-> _calculate_retry_delay(rt_cfg, rt_response,
                                                    rt_attempt, rt_now, jitter)]
  /\ rt_attempt' = rt_attempt + 1
  /\ UNCHANGED <<rt_cfg, rt_response, rt_now>>

(***************************************************************************)
(* The client: configuration, credential, clock, disk cache.               *)
(***************************************************************************)
VARIABLES
  pc,        \* "new" | "idle" | "attempting" | "failed"
  cfg,       \* the attributes __init__ sets
  cache,     \* self._cache
  file,      \* the file at cache_path
  now,       \* time.time(), in seconds
  ticks,     \* how often the clock has advanced
  calls,     \* how many request() calls have started
  call,      \* the locals of the current (or last) request() call
  result,    \* how the last request() call ended
  net,       \* network requests issued by the current (or last) call
  returned,  \* per cache key, what the call that stored the entry returned
  pg,        \* the locals of a paginate() generator
  srv        \* the pages the server offers to it

clientVars == <<pc, cfg, cache, file, now, ticks, calls, call, result, net,
                returned>>
pageVars == <<pg, srv>>

DEFAULT_MAX_RETRIES == 6
StartEpoch == 1000
MaxCalls == 2
MaxTicks == 3

\* max_age = CACHE_MAX_AGE_DAYS * 24 * 60 * 60
MaxAge == CACHE_MAX_AGE_DAYS * SecondsPerDay

TOKEN_ENV == <<"GITHUB_TOKEN", "GH_TOKEN">>
None == [present |-> FALSE, v |-> <<>>]
Some(v) == [present |-> TRUE, v |-> v]
\* the truth value of an optional str
Truthy(opt) == opt.present /\ Len(opt.v) > 0

\* for env_var in token_env: if env_var in os.environ: ...; break
RECURSIVE FirstPresent(_, _, _)
FirstPresent(environ, names, i) ==
  IF i > Len(names) THEN None
  ELSE IF names[i] \in DOMAIN environ THEN Some(environ[names[i]])
  ELSE FirstPresent(environ, names, i + 1)

(***************************************************************************)
(* Cache entries and the cache file.                                       *)
(*   typed  "ok", or "etag_null" for an entry read from a file whose etag  *)
(*          is JSON null: the dataclass does not check field types.        *)
(***************************************************************************)
CacheEntry(etag, url, status_code, headers, body_text, saved_at_epoch) ==
  [etag |-> etag, url |-> url, status_code |-> status_code,
   headers |-> headers, body_text |-> body_text,
   saved_at_epoch |-> saved_at_epoch, typed |-> "ok"]

NoText == Body("malformed", "absent", <<>>, "")
NoEntry == CacheEntry(<<>>, <<>>, 0, EmptyDict, NoText, 0)
NoCached == [present |-> FALSE, e |-> NoEntry]

\* The file: exists; kind "map" (a JSON object), "list", "scalar" (another
\* JSON value), "corrupt" (not JSON), "bad_utf8" (not UTF-8); raw maps each
\* key of a JSON object to entry data [shape, e]:
\*   shape "ok"            the six fields of CacheEntry
\*         "missing_field" one of them is missing
\*         "extra_field"   one more key
\*         "not_mapping"   the value is not a JSON object
\*         "saved_at_str"  saved_at_epoch is a JSON string
\*         "etag_null"     the six fields, etag is JSON null
NoFile == [exists |-> FALSE, kind |-> "map", raw |-> EmptyDict]
MapFile(raw) == [exists |-> TRUE, kind |-> "map", raw |-> raw]

\* the two lines without the test of the age
LoadEntryKeepAll(data, t) ==
  CASE data.shape \in {"missing_field", "extra_field", "not_mapping"} ->
         [raised |-> "TypeError", keep |-> FALSE]
    [] data.shape = "saved_at_str" ->
         [raised |-> "TypeError", keep |-> FALSE]
    [] OTHER ->
         [raised |-> "none", keep |-> TRUE]

\* entry = CacheEntry(**entry_data); now - entry.saved_at_epoch < max_age
\* raised names the exception of the two lines, "none" when they succeed.
LoadEntry(data, t) ==
  CASE data.shape \in {"missing_field", "extra_field", "not_mapping"} ->
         [raised |-> "TypeError", keep |-> FALSE]
    [] data.shape = "saved_at_str" ->
         [raised |-> "TypeError", keep |-> FALSE]
    [] OTHER ->
         [raised |-> "none", keep |-> t - data.e.saved_at_epoch < MaxAge]

\* the loop of _load_cache over raw.items(), from the entries not yet read
RECURSIVE LoadItems(_, _, _, _)
LoadItems(raw, todo, acc, t) ==
  IF todo = {} THEN [raised |-> "none", cache |-> acc]
  ELSE LET key == CHOOSE k \in todo : TRUE
           r == LoadEntry(raw[key], t)
       IN IF r.raised # "none" THEN [raised |-> r.raised, cache |-> acc]
          ELSE LoadItems(raw, todo \ {key},
                         IF r.keep THEN Put(acc, key, raw[key].e) ELSE acc, t)

\* the try block of _load_cache
LoadTry(f, t) ==
  CASE f.kind = "bad_utf8" -> [raised |-> "UnicodeDecodeError", cache |-> EmptyDict]
    [] f.kind = "corrupt" -> [raised |-> "JSONDecodeError", cache |-> EmptyDict]
    [] f.kind \in {"list", "scalar"} -> [raised |-> "AttributeError", cache |-> EmptyDict]
    [] OTHER -> LoadItems(f.raw, DOMAIN f.raw, EmptyDict, t)

CaughtByLoad == {"JSONDecodeError", "TypeError", "KeyError"}

\* GitHubClient._load_cache on a client whose _cache is {}
_load_cache(cache_enabled, f, t) ==
  IF ~cache_enabled THEN [raised |-> "none", cache |-> EmptyDict]
  ELSE IF ~f.exists THEN [raised |-> "none", cache |-> EmptyDict]
  ELSE LET r == LoadTry(f, t)
       IN IF r.raised \in CaughtByLoad
          THEN [raised |-> "none", cache |-> EmptyDict]
          ELSE r

\* a save that is put off
SaveCacheNever(cache_enabled, c, f) == f

\* _save_cache without its first test
SaveCacheAlways(cache_enabled, c, f) ==
  MapFile([k \in DOMAIN c |-> [shape |-> c[k].typed, e |-> c[k]]])

\* GitHubClient._save_cache: the file after it
_save_cache(cache_enabled, c, f) ==
  IF ~cache_enabled THEN f
  ELSE MapFile([k \in DOMAIN c |-> [shape |-> c[k].typed, e |-> c[k]]])

\* GitHubClient.__init__: args are its keyword arguments
Construct(args, environ, f, t) ==
  LET token == FirstPresent(environ, TOKEN_ENV, 1)
      enabled == args.cache_enabled /\ args.cache_path
      loaded == _load_cache(enabled, f, t)
  IN IF args.auth = "required" /\ ~Truthy(token)
     THEN [raised |-> "GitHubAuthError", cfg |-> args, cache |-> EmptyDict]
     ELSE [raised |-> loaded.raised,
           cfg |-> [auth |-> args.auth,
                    max_retries |-> args.max_retries,
                    backoff_base_ms |-> args.backoff_base_ms,
                    backoff_max_ms |-> args.backoff_max_ms,
                    cache_enabled |-> enabled,
                    token |-> token,
                    args |-> args,
                    environ |-> environ],
           cache |-> loaded.cache]

(***************************************************************************)
(* URLs.  A URL is a sequence of characters in which a scheme prefix       *)
(* ("https://", "http://") and a host name are one token each.             *)
(***************************************************************************)
BASE_URL == <<"https://", "api.github.com">>

\* the characters the model uses, in code point order
CharOrder == <<" ", "+", ",", "-", ".", "/">> \o DigitChars \o <<"=", "?">>
             \o UpperChars \o <<"_">> \o LowerChars

\* a < b for two str
RECURSIVE StrLess(_, _)
StrLess(a, b) ==
  IF Len(b) = 0 THEN FALSE
  ELSE IF Len(a) = 0 THEN TRUE
  ELSE IF a[1] = b[1] THEN StrLess(Tail(a), Tail(b))
  ELSE IndexIn(a[1], CharOrder) < IndexIn(b[1], CharOrder)

\* the items left in insertion order
SortedAsInserted(items) == items

\* sorted(params.items()): the items of a dict (distinct keys), by key
RECURSIVE Sorted(_)
Sorted(items) ==
  IF Len(items) = 0 THEN <<>>
  ELSE LET m == CHOOSE i \in 1..Len(items) :
                  \A j \in 1..Len(items) : j = i \/ StrLess(items[i][1], items[j][1])
           rest == [k \in 1..(Len(items) - 1) |->
                      IF k < m THEN items[k] ELSE items[k + 1]]
       IN <<items[m]>> \o Sorted(rest)

\* urllib.parse.quote_plus of one character
QuoteChar(c) ==
  CASE c = " " -> <<"+">>
    [] c = "," -> <<"%2C">>
    [] c = "/" -> <<"%2F">>
    [] c = "=" -> <<"%3D">>
    [] c = "?" -> <<"%3F">>
    [] c = "+" -> <<"%2B">>
    [] OTHER -> <<c>>

RECURSIVE QuotePlus(_)
QuotePlus(s) == IF Len(s) = 0 THEN <<>>
                ELSE QuoteChar(s[1]) \o QuotePlus(Tail(s))

\* urllib.parse.urlencode of a list of (key, value) pairs
RECURSIVE UrlEncode(_)
UrlEncode(items) ==
  IF Len(items) = 0 THEN <<>>
  ELSE QuotePlus(items[1][1]) \o <<"=">> \o QuotePlus(items[1][2])
       \o (IF Len(items) > 1 THEN <<"&">> ELSE <<>>)
       \o UrlEncode(Tail(items))

\* path.lstrip('/')
RECURSIVE LStripSlash(_)
LStripSlash(path) ==
  IF Len(path) > 0 /\ path[1] = "/" THEN LStripSlash(Tail(path)) ELSE path

IsAbsolute(path) == Len(path) > 0 /\ path[1] \in {"http://", "https://"}

\* GitHubClient._build_url; params is the dict as its list of items
_build_url(path, params) ==
  LET url == IF IsAbsolute(path) THEN path
             ELSE BASE_URL \o <<"/">> \o LStripSlash(path)
  IN IF Len(params) > 0
     THEN url \o <<"?">> \o UrlEncode(Sorted(params))
     ELSE url

\* GitHubClient._cache_key
_cache_key(url, accept) == url \o <<"|">> \o accept

(***************************************************************************)
(* request().                                                              *)
(***************************************************************************)
ACCEPT_JSON == <<"application/vnd.github+json">>
API_VERSION == <<"2022-11-28">>
USER_AGENT == <<"IroncladSalvage/defibrillator">>

ResponseData(url, status_code, headers, text) ==
  [url |-> url, status_code |-> status_code, headers |-> headers, text |-> text]

NoData == ResponseData(<<>>, 0, EmptyDict, NoText)
NoResponse == [present |-> FALSE, r |-> Response(0, EmptyDict, NoText)]

\* how a call ended: kind "none" (not yet) | "return" | "GitHubAuthError" |
\* "GitHubHTTPError" | "GitHubError" | "ValueError"; data is the ResponseData
\* returned or the fields of the HTTP error; from_cache and age record, for
\* a return, whether the data is a cache entry's and how old that entry was.
Outcome(kind, data, from_cache, age) ==
  [kind |-> kind, data |-> data, from_cache |-> from_cache, age |-> age]
NoOutcome == Outcome("none", NoData, FALSE, 0)

IsGet(method) == Upper(method) = <<"G", "E", "T">>

\* for attempt in range(self.max_retries + 1)
LoopRange(max_retries) == max_retries + 1

\* a sleep also after the last attempt
CanRetryOneMore(attempt, max_retries) == attempt <= max_retries

\* retries for GET only
CanRetryGetOnly(attempt, max_retries) ==
  attempt < max_retries /\ IsGet(call.method)

\* one retry fewer than configured
CanRetryOneLess(attempt, max_retries) == attempt + 1 < max_retries

\* attempt < self.max_retries
CanRetry(attempt, max_retries) == attempt < max_retries

NoCall ==
  [method |-> <<>>, url |-> <<>>, accept |-> <<>>, use_cache |-> FALSE,
   key |-> <<>>, expected |-> {}, auth |-> "default", auth_mode |-> "auto",
   given |-> EmptyDict, req_headers |-> EmptyDict, cached |-> NoCached,
   attempt |-> 0,
   last |-> NoResponse, all500 |-> FALSE, sleeps |-> 0, delay |-> 0,
   json_body |-> None, ended |-> "none", by |-> "caller"]

\* the check that treats only a missing token, not an empty one, as no token
AuthRaisesIfNone(auth_mode, token) ==
  ~(auth_mode # "none" /\ token.present) /\ auth_mode = "required"

\* lines 245-248: required, and no token to attach
AuthRaises(auth_mode, token) ==
  ~(auth_mode # "none" /\ Truthy(token)) /\ auth_mode = "required"

\* an attempt counter kept on the client: a call goes on where the one
\* before it stopped
FirstAttemptCarriedOver(previous) == previous.attempt

\* line 262: attempt is a local of the call, its first value is 0 whatever
\* the call before it (previous) did
FirstAttempt(previous) == 0

\* the lookup condition without the test of the method
ShouldLookupAnyMethod(method, use_cache) == use_cache /\ cfg.cache_enabled

\* line 256: the cache is looked up
ShouldLookup(method, use_cache) ==
  IsGet(method) /\ use_cache /\ cfg.cache_enabled

\* the headers of the request with the caller's headers merged in last
RequestHeadersCallerLast(accept, token, attach, headers, cached) ==
  LET h0 == ("Accept" :> accept) @@ ("X-GitHub-Api-Version" :> API_VERSION)
            @@ ("User-Agent" :> USER_AGENT)
      h1 == IF attach
            THEN Put(h0, "Authorization", <<"Bearer ">> \o token.v)
            ELSE h0
      h2 == IF cached.present /\ Len(cached.e.etag) > 0
            THEN Put(h1, "If-None-Match", cached.e.etag)
            ELSE h1
  IN Update(h2, headers)

\* lines 239-259: req_headers as the attempts send it; attach says whether
\* the token goes in, headers is the caller's dict ({} for None), cached
\* the entry the lookup found
RequestHeaders(accept, token, attach, headers, cached) ==
  LET h0 == ("Accept" :> accept) @@ ("X-GitHub-Api-Version" :> API_VERSION)
            @@ ("User-Agent" :> USER_AGENT)
      h1 == IF attach
            THEN Put(h0, "Authorization", <<"Bearer ">> \o token.v)
            ELSE h0
      h2 == Update(h1, headers)
  IN IF cached.present /\ Len(cached.e.etag) > 0
     THEN Put(h2, "If-None-Match", cached.e.etag)
     ELSE h2

\* lines 236-259 of request(): everything before the retry loop.  a holds
\* the arguments; by is "caller" or "paginate".
Prepare(a, by) ==
  LET url == _build_url(a.path, a.params)
      auth_mode == IF a.auth # "default" THEN a.auth ELSE cfg.auth
      attach == auth_mode # "none" /\ Truthy(cfg.token)
      key == IF Truthy(a.cache_key) THEN a.cache_key.v
             ELSE _cache_key(url, a.accept)
      lookup == ShouldLookup(a.method, a.use_cache)
      cached == IF lookup /\ key \in DOMAIN cache
                THEN [present |-> TRUE, e |-> cache[key]]
                ELSE NoCached
      raises == AuthRaises(auth_mode, cfg.token)
  IN [raised |-> IF raises THEN "GitHubAuthError" ELSE "none",
      call |-> [method |-> a.method, url |-> url, accept |-> a.accept,
                use_cache |-> a.use_cache, key |-> key,
                expected |-> a.expected, auth |-> a.auth,
                auth_mode |-> auth_mode,
                given |-> a.headers,
                req_headers |-> IF raises THEN EmptyDict
                                ELSE RequestHeaders(a.accept, cfg.token, attach,
                                                    a.headers, cached),
                cached |-> IF raises THEN NoCached ELSE cached,
                attempt |-> FirstAttempt(call), last |-> NoResponse,
                all500 |-> TRUE,
                sleeps |-> 0, delay |-> 0, json_body |-> a.json_body,
                ended |-> "none", by |-> by]]

\* the locals c of a call hold no If-None-Match but the caller's own
NoValidatorFromCache(c) ==
  "If-None-Match" \in DOMAIN c.req_headers
  => /\ "If-None-Match" \in DOMAIN c.given
     /\ c.req_headers["If-None-Match"] = c.given["If-None-Match"]

\* request() is entered: the call either raises at once or reaches the loop
Enter(a, by) ==
  LET p == Prepare(a, by)
  IN /\ calls' = calls + 1
     /\ call' = p.call
     /\ net' = 0
     /\ IF p.raised # "none"
        THEN /\ pc' = "idle"
             /\ result' = Outcome(p.raised, NoData, FALSE, 0)
        ELSE IF LoopRange(cfg.max_retries) <= 0
        THEN \* range(self.max_retries + 1) is empty, last_response is None
             /\ pc' = "idle"
             /\ result' = Outcome("GitHubError", NoData, FALSE, 0)
        ELSE /\ pc' = "attempting"
             /\ result' = NoOutcome
     /\ UNCHANGED <<cfg, cache, file, now, ticks, returned>>

\* the arguments of the request() calls the model makes: a plain cached GET,
\* varied in method, use_cache and expected, in path, in cache_key, in
\* auth, in headers
Methods == { <<"G", "E", "T">>, <<"g", "e", "t">>, <<"P", "O", "S", "T">> }
ExpectedSets == { {200}, {200, 304}, {204, 500} }
AuthArgs == {"required", "none"}

Args(method, path, use_cache, cache_key, auth, expected) ==
  [method |-> method, path |-> path, params |-> <<>>, headers |-> EmptyDict,
   json_body |-> IF IsGet(method) THEN None ELSE Some(<<"payload">>),
   accept |-> ACCEPT_JSON, use_cache |-> use_cache, cache_key |-> cache_key,
   auth |-> auth, expected |-> expected]

GET == <<"G", "E", "T">>

\* a headers argument that names every header the client sets itself
CallerHeaders ==
  ("Accept" :> <<"text/plain">>) @@ ("User-Agent" :> <<"ua">>)
  @@ ("X-GitHub-Api-Version" :> <<"2021">>)
  @@ ("Authorization" :> <<"token ", "t9">>)
  @@ ("If-None-Match" :> <<"e0">>)

RequestArgs ==
  { Args(m, <<"/", "r">>, TRUE, None, "default", {200}) : m \in Methods }
  \cup { Args(GET, <<"/", "r">>, u, None, "default", e) :
           u \in BOOLEAN, e \in ExpectedSets }
  \cup { Args(GET, p, TRUE, Some(<<"k">>), "default", {200}) :
           p \in {<<"/", "r">>, <<"s">>} }
  \cup { Args(GET, <<"/", "r">>, FALSE, None, a, {200}) : a \in AuthArgs }
  \cup { [Args(GET, <<"/", "r">>, TRUE, None, "default", {200})
            EXCEPT !.headers = CallerHeaders] }

\* a caller calls request()
StartRequest ==
  /\ pc = "idle"
  /\ calls < MaxCalls
  /\ \E a \in RequestArgs : Enter(a, "caller")

\* the ResponseData of a response
DataOf(url, response) ==
  ResponseData(url, response.status, response.headers, response.text)

\* the 304 branch with the body of the 304 response in place of the entry's
ReturnedFromCacheResponseBody(url, entry, response) ==
  ResponseData(url, entry.status_code, entry.headers, response.text)

\* lines 275-280: what a 304 tied to a cache hit returns
ReturnedFromCache(url, entry, response) ==
  ResponseData(url, entry.status_code, entry.headers, entry.body_text)

\* the caching condition without the test of the ETag
ShouldStoreAnyEtag(method, use_cache, response) ==
  IsGet(method) /\ use_cache /\ cfg.cache_enabled

\* lines 283-289: an expected response is stored
ShouldStore(method, use_cache, response) ==
  /\ IsGet(method)
  /\ use_cache
  /\ cfg.cache_enabled
  /\ Len(Get(response.headers, "ETag", <<>>)) > 0

\* lines 290-297
NewEntry(url, response, t) ==
  CacheEntry(Get(response.headers, "ETag", <<>>), url, response.status,
             response.headers, response.text, t)

\* the retry policy asked before the expected set
ExpectedUnlessRetryable(response, expected) ==
  response.status \in expected /\ ~_should_retry(response)

\* line 282: response.status_code in expected
IsExpected(response, expected) == response.status \in expected

\* a loop body without the 304 branch
NotModifiedNever(response, cached) == FALSE

\* line 274: response.status_code == 304 and cached_entry
NotModifiedHit(response, cached) == response.status = 304 /\ cached.present

\* One pass of the loop body for a response of the transport (lines
\* 264-317), with the sleep that follows a retry decision.
HandleResponse(response, jitter) ==
  LET hit == NotModifiedHit(response, call.cached)
      ok == ~hit /\ IsExpected(response, call.expected)
      store == ok /\ ShouldStore(call.method, call.use_cache, response)
      retry == /\ ~hit
               /\ ~ok
               /\ _should_retry(response)
               /\ CanRetry(call.attempt, cfg.max_retries)
      delay == _calculate_retry_delay(cfg, response, call.attempt,
                                      ToMs(now), jitter)
      cache2 == IF store
                THEN Put(cache, call.key, NewEntry(call.url, response, now))
                ELSE cache
      more == call.attempt + 1 < LoopRange(cfg.max_retries)
      httpError == Outcome("GitHubHTTPError", DataOf(call.url, response), FALSE, 0)
  IN /\ net' = net + 1
     /\ cache' = cache2
     /\ file' = IF store THEN _save_cache(cfg.cache_enabled, cache2, file)
                ELSE file
     /\ returned' = IF store
                    THEN Put(returned, call.key, DataOf(call.url, response))
                    ELSE returned
     /\ call' = [call EXCEPT
                   !.last = [present |-> TRUE, r |-> response],
                   !.all500 = @ /\ response.status = 500,
                   !.attempt = IF retry /\ delay >= 0 /\ more THEN @ + 1 ELSE @,
                   !.sleeps = IF retry /\ delay >= 0 THEN @ + 1 ELSE @,
                   !.delay = IF retry THEN delay ELSE @,
                   !.ended = "response"]
     /\ IF hit
        THEN /\ pc' = "idle"
             /\ result' = Outcome("return",
                                  ReturnedFromCache(call.url, call.cached.e, response),
                                  TRUE, now - call.cached.e.saved_at_epoch)
        ELSE IF ok
        THEN /\ pc' = "idle"
             /\ result' = Outcome("return", DataOf(call.url, response), FALSE, 0)
        ELSE IF retry /\ delay < 0
        THEN \* time.sleep raises ValueError for a negative delay
             /\ pc' = "idle"
             /\ result' = Outcome("ValueError", NoData, FALSE, 0)
        ELSE IF retry /\ more
        THEN /\ pc' = "attempting"
             /\ result' = result
        ELSE \* raise GitHubHTTPError, in the loop or after it (lines 312, 329)
             /\ pc' = "idle"
             /\ result' = httpError
     /\ UNCHANGED <<cfg, now, ticks, calls>>

\* what the server may answer a request of the model with
B1 == Body("object", "absent", <<>>, "b1")
B2 == Body("list", "absent", <<>>, "b2")
BEmpty == Body("malformed", "absent", <<>>, "empty")
BNotFound == Body("object", "str", <<"N", "o", "t", " ", "F", "o", "u", "n", "d">>, "nf")
E1 == <<"e1">>
E2 == <<"e2">>

\* rate-limit headers whose reset time, 990, lies before every time of
\* the model
PastReset == ("X-RateLimit-Remaining" :> <<"0">>)
             @@ ("X-RateLimit-Reset" :> <<"9", "9", "0">>)

ServerResponses ==
  { Response(200, "ETag" :> E1, B1),
    Response(200, "ETag" :> E2, B2),
    Response(200, EmptyDict, B2),
    Response(304, "ETag" :> E1, BEmpty),
    Response(403, EmptyDict, BNotFound),
    Response(404, EmptyDict, BNotFound),
    Response(429, PastReset, BEmpty),
    Response(500, EmptyDict, BEmpty) }

\* self._session.request(...) answers
AttemptResponse ==
  /\ pc = "attempting"
  /\ call.by = "caller"
  /\ \E response \in ServerResponses, jitter \in JitterEnds :
       HandleResponse(response, jitter)

\* except requests.RequestException (lines 319-326), with the sleep
HandleTransportError(jitter) ==
  LET retry == CanRetry(call.attempt, cfg.max_retries)
      delay == cfg.backoff_base_ms * Pow(2, call.attempt) + jitter
      more == call.attempt + 1 < LoopRange(cfg.max_retries)
  IN /\ net' = net + 1
     /\ call' = [call EXCEPT
                   !.all500 = FALSE,
                   !.attempt = IF retry /\ more THEN @ + 1 ELSE @,
                   !.sleeps = IF retry THEN @ + 1 ELSE @,
                   !.delay = IF retry THEN delay ELSE @,
                   !.ended = "transport"]
     /\ IF retry /\ more
        THEN /\ pc' = "attempting"
             /\ result' = result
        ELSE IF retry /\ call.last.present
        THEN \* the loop is over with a response seen (line 329)
             /\ pc' = "idle"
             /\ result' = Outcome("GitHubHTTPError",
                                  DataOf(call.url, call.last.r), FALSE, 0)
        ELSE /\ pc' = "idle"
             /\ result' = Outcome("GitHubError", NoData, FALSE, 0)
     /\ UNCHANGED <<cfg, cache, file, now, ticks, calls, returned>>

\* self._session.request(...) raises: connection error, timeout
AttemptTransportError ==
  /\ pc = "attempting"
  /\ \E jitter \in JitterEnds : HandleTransportError(jitter)

(***************************************************************************)
(* Time, and the life of the process.                                      *)
(***************************************************************************)
\* the clock advances in steps of half the maximum age
TickStep == MaxAge \div 2

\* time passes between two calls (the seconds a call takes do not count
\* against a maximum age of days)
Tick ==
  /\ pc = "idle"
  /\ ticks < MaxTicks
  /\ now' = now + TickStep
  /\ ticks' = ticks + 1
  /\ UNCHANGED <<pc, cfg, cache, file, calls, call, result, net, returned>>

\* a process ends and a new one constructs a client with the same arguments
\* and environment over the same cache path; closing says whether the old
\* one called GitHubClient.close (or left its with block) before
NewProcess(closing) ==
  LET f == IF closing THEN _save_cache(cfg.cache_enabled, cache, file) ELSE file
      c == Construct(cfg.args, cfg.environ, f, now)
  IN /\ pc = "idle"
     /\ c.raised = "none"
     /\ file' = f
     /\ cfg' = c.cfg
     /\ cache' = c.cache
     /\ pc' = "idle"
     /\ call' = NoCall
     /\ result' = NoOutcome
     /\ net' = 0
     /\ UNCHANGED <<now, ticks, calls, returned>>

CloseAndRestart == NewProcess(TRUE)
Restart == NewProcess(FALSE)

\* the arguments and environments of the clients the model constructs:
\* a caching client, clients without a cache that differ in max_retries, in
\* their default auth mode and in the token they find, and one with
\* backoff_max_s = 2.0 and three retries
WithToken == "GH_TOKEN" :> <<"t2">>
EmptyFirst == ("GITHUB_TOKEN" :> <<>>) @@ ("GH_TOKEN" :> <<"t2">>)

Kwargs(auth, max_retries, cache_enabled, cache_path) ==
  [auth |-> auth, max_retries |-> max_retries,
   backoff_base_ms |-> ToMs(1), backoff_max_ms |-> ToMs(60),
   cache_enabled |-> cache_enabled, cache_path |-> cache_path]

Clients ==
  { <<Kwargs("auto", 1, TRUE, TRUE), WithToken>>,
    <<Kwargs("auto", DEFAULT_MAX_RETRIES, FALSE, TRUE), WithToken>>,
    <<Kwargs("auto", 0, TRUE, FALSE), WithToken>>,
    <<[Kwargs("auto", 3, FALSE, TRUE) EXCEPT !.backoff_max_ms = ToMs(2)],
      WithToken>> }
  \cup { <<Kwargs(a, 0, FALSE, TRUE), env>> :
           a \in {"auto", "required", "none"},
           env \in {EmptyDict, WithToken, EmptyFirst} }

\* a client right after construction, no cache file yet
ClientInit ==
  /\ \E cl \in Clients :
       LET c == Construct(cl[1], cl[2], NoFile, StartEpoch)
       IN /\ c.raised = "none"
          /\ cfg = c.cfg
          /\ cache = c.cache
  /\ pc = "idle"
  /\ file = NoFile
  /\ now = StartEpoch
  /\ ticks = 0
  /\ calls = 0
  /\ call = NoCall
  /\ result = NoOutcome
  /\ net = 0
  /\ returned = EmptyDict


(***************************************************************************)
(* paginate().  A Link header is a sequence of tokens: "<", ">", ";", ",", *)
(* " ", a relation such as rel="next", and the tokens of a URL.            *)
(***************************************************************************)
REL_NEXT == "rel=\"next\""

\* s.split(","): the parts of s between commas
RECURSIVE SplitComma(_, _)
SplitComma(s, part) ==
  IF Len(s) = 0 THEN <<part>>
  ELSE IF s[1] = "," THEN <<part>> \o SplitComma(Tail(s), <<>>)
  ELSE SplitComma(Tail(s), Append(part, s[1]))

\* the number of leading spaces of s, as \s* consumes them
RECURSIVE Spaces(_)
Spaces(s) == IF Len(s) > 0 /\ s[1] = " " THEN 1 + Spaces(Tail(s)) ELSE 0

Drop(s, n) == SubSeq(s, n + 1, Len(s))

\* the length of the longest prefix of s without ">", as [^>]+ consumes it
RECURSIVE UntilClose(_)
UntilClose(s) == IF Len(s) > 0 /\ s[1] # ">" THEN 1 + UntilClose(Tail(s)) ELSE 0

\* re.match(r'\s*<([^>]+)>\s*;\s*rel="next"', part): group 1 on a match
MatchNext(part) ==
  LET a == Drop(part, Spaces(part))
      b == IF Len(a) > 0 /\ a[1] = "<" THEN Tail(a) ELSE <<>>
      n == UntilClose(b)
      c == Drop(b, n)
      d == IF Len(c) > 0 THEN Drop(Tail(c), Spaces(Tail(c))) ELSE <<>>
      e == IF Len(d) > 0 /\ d[1] = ";" THEN Drop(Tail(d), Spaces(Tail(d))) ELSE <<>>
  IN IF /\ Len(a) > 0 /\ a[1] = "<"
        /\ n > 0
        /\ Len(c) > 0
        /\ Len(d) > 0 /\ d[1] = ";"
        /\ Len(e) > 0 /\ e[1] = REL_NEXT
     THEN Some(SubSeq(b, 1, n))
     ELSE None

\* for part in link_header.split(","): the first match
RECURSIVE FirstNext(_)
FirstNext(parts) ==
  IF Len(parts) = 0 THEN None
  ELSE IF MatchNext(parts[1]).present THEN MatchNext(parts[1])
  ELSE FirstNext(Tail(parts))

\* _parse_next_link that gives up after the first part
ParseNextLinkFirstPartOnly(link_header) ==
  IF Len(link_header) = 0 THEN None
  ELSE MatchNext(SplitComma(link_header, <<>>)[1])

\* GitHubClient._parse_next_link
_parse_next_link(link_header) ==
  IF Len(link_header) = 0 THEN None
  ELSE FirstNext(SplitComma(link_header, <<>>))

\* the items one page yields (lines 412-417)
PageItems(text, item_key) ==
  IF text.json = "list" THEN text.items
  ELSE IF text.json = "object" /\ Truthy(item_key)
  THEN IF text.keyed = "list" /\ <<text.key>> = item_key.v
       THEN text.items
       ELSE <<>>
  ELSE <<>>

PER_PAGE == 100

\* str(per_page) for the default per_page
PerPageStr == <<"1", "0", "0">>

\* the page requests made with the cache on
PageArgsCached(url, auth) ==
  [method |-> <<"G", "E", "T">>, path |-> url, params |-> <<>>,
   headers |-> EmptyDict, json_body |-> None, accept |-> ACCEPT_JSON,
   use_cache |-> TRUE,
   cache_key |-> None, auth |-> auth, expected |-> {200}]

\* the arguments of the generator's request() call for one page
PageArgs(url, auth) ==
  [method |-> <<"G", "E", "T">>, path |-> url, params |-> <<>>,
   headers |-> EmptyDict, json_body |-> None, accept |-> ACCEPT_JSON,
   use_cache |-> FALSE,
   cache_key |-> None, auth |-> auth, expected |-> {200}]

\* paginate(path, params=..., item_key=..., limit_pages=..., auth=...) up to
\* the loop: the locals of the generator
Generator(path, params, item_key, limit_pages, auth) ==
  [status |-> "running",
   url |-> Some(_build_url(path, Append(params, <<<<"p","e","r","_","p","a","g","e">>, PerPageStr>>))),
   pages_fetched |-> 0,
   item_key |-> item_key,
   limit_pages |-> limit_pages,
   auth |-> auth,
   yielded |-> <<>>,
   requests |-> 0,
   clean |-> TRUE]

NoGenerator ==
  [status |-> "none", url |-> None, pages_fetched |-> 0, item_key |-> None,
   limit_pages |-> [present |-> FALSE, v |-> 0], auth |-> "default",
   yielded |-> <<>>, requests |-> 0, clean |-> TRUE]

\* the loop test that lets one page more through than limit_pages
LoopEndsAfterLimit(url, limit_pages, pages_fetched) ==
  \/ ~Truthy(url)
  \/ limit_pages.present /\ pages_fetched > limit_pages.v

\* lines 398-400: the while condition fails, or the break is taken
LoopEnds(url, limit_pages, pages_fetched) ==
  \/ ~Truthy(url)
  \/ limit_pages.present /\ pages_fetched >= limit_pages.v

\* while url: if limit_pages is not None and pages_fetched >= limit_pages:
\* break; response = self.request("GET", url, use_cache=False, auth=auth)
PaginateLoop ==
  /\ pg.status = "running"
  /\ pc = "idle"
  /\ IF LoopEnds(pg.url, pg.limit_pages, pg.pages_fetched)
     THEN /\ pg' = [pg EXCEPT !.status = "done"]
          /\ UNCHANGED clientVars
     ELSE /\ pg' = [pg EXCEPT !.status = "waiting"]
          /\ Enter(PageArgs(pg.url.v, pg.auth), "paginate")
  /\ UNCHANGED srv

\* request() is back: count the page, yield its items, find the next link;
\* an exception of request() or of response.json() ends the generator
PaginateConsume ==
  /\ pg.status = "waiting"
  /\ pc = "idle"
  /\ IF result.kind # "return"
     THEN pg' = [pg EXCEPT !.status = "raised", !.requests = @ + net]
     ELSE IF result.data.text.json = "malformed"
     THEN pg' = [pg EXCEPT !.status = "raised", !.requests = @ + net,
                            !.pages_fetched = @ + 1]
     ELSE pg' = [pg EXCEPT
                   !.status = "running",
                   !.requests = @ + net,
                   !.clean = @ /\ net = 1,
                   !.pages_fetched = @ + 1,
                   !.yielded = @ \o PageItems(result.data.text, pg.item_key),
                   !.url = _parse_next_link(Get(result.data.headers, "Link", <<>>))]
  /\ UNCHANGED clientVars
  /\ UNCHANGED srv

(***************************************************************************)
(* The server of a pagination: a chain of pages.                           *)
(*   sizes  the number of items of each page                               *)
(*   form   how a body holds its items: "list", or "object" under "items"  *)
(*   style  how the Link headers are written; with "cycle" the last page   *)
(*          names the first one as its next page, so the chain never ends  *)
(***************************************************************************)
PageUrl(i) == <<"https://", "api.github.com", "/", "l", "?", "page", "=">>
              \o <<DigitChars[i + 1]>>

\* the URL of the first page request
FirstPath == <<"/", "l">>
FirstUrl ==
  _build_url(FirstPath, <<<<<<"p","e","r","_","p","a","g","e">>, PerPageStr>>>>)

\* the number of the page a URL asks for, 0 when it is none of the chain
PageOf(url) ==
  IF url = FirstUrl THEN 1
  ELSE IF \E i \in 2..9 : url = PageUrl(i)
  THEN CHOOSE i \in 2..9 : url = PageUrl(i)
  ELSE 0

Link(url, rel) == <<"<">> \o url \o <<">", ";", " ", rel>>
LinkTight(url, rel) == <<"<">> \o url \o <<">", ";", rel>>
Sep == <<",", " ">>

\* the items of page i: i1, i2, ...
ItemsOf(i, size) == [j \in 1..size |-> 10 * i + j]

\* the Link header of page i of k, absent when it names no link
LinkHeader(style, i, k) ==
  LET prev == Link(IF i = 2 THEN FirstUrl ELSE PageUrl(i - 1), "rel=\"prev\"")
      next == Link(PageUrl(i + 1), REL_NEXT)
      last == Link(PageUrl(k), "rel=\"last\"")
      first == Link(FirstUrl, "rel=\"first\"")
  IN CASE style = "github" ->
            (IF i > 1 THEN prev \o Sep ELSE <<>>)
            \o (IF i < k THEN next \o Sep \o last ELSE <<>>)
            \o (IF i > 1 /\ i < k THEN Sep ELSE <<>>)
            \o (IF i > 1 THEN first ELSE <<>>)
       [] style = "next_only" ->
            IF i < k THEN next ELSE <<>>
       [] style = "cycle" ->
            IF i < k THEN next ELSE Link(FirstUrl, REL_NEXT)
       [] OTHER -> \* "tight": no blanks, the next link last
            (IF i > 1 THEN LinkTight(FirstUrl, "rel=\"first\"") ELSE <<>>)
            \o (IF i > 1 /\ i < k THEN <<",">> ELSE <<>>)
            \o (IF i < k THEN LinkTight(PageUrl(i + 1), REL_NEXT) ELSE <<>>)

PageBody(form, items, i) ==
  [json |-> IF form = "list" THEN "list" ELSE "object",
   msg |-> "absent", message |-> <<>>, tag |-> "page",
   key |-> IF form = "list" THEN "" ELSE "items",
   keyed |-> IF form = "list" THEN "absent" ELSE "list",
   items |-> items]

\* what the server answers to a request for url
PageResponse(url) ==
  LET i == PageOf(url)
      k == Len(srv.sizes)
  IN IF i = 0 \/ i > k
     THEN Response(404, EmptyDict, BNotFound)
     ELSE Response(200,
                   ("ETag" :> E1)
                   @@ (IF Len(LinkHeader(srv.style, i, k)) > 0
                       THEN "Link" :> LinkHeader(srv.style, i, k)
                       ELSE EmptyDict),
                   PageBody(srv.form, ItemsOf(i, srv.sizes[i]), i))

\* self._session.request(...) answers a page request: with the page, or
\* with a server error
AttemptPage ==
  /\ pc = "attempting"
  /\ call.by = "paginate"
  /\ \E response \in {PageResponse(call.url), Response(500, EmptyDict, BEmpty)},
        jitter \in JitterEnds :
       HandleResponse(response, jitter)

MaxPages == 3
PageSizes == {0, 2}

RECURSIVE SeqsUpTo(_, _)
SeqsUpTo(S, n) ==
  IF n = 0 THEN {<<>>}
  ELSE SeqsUpTo(S, n - 1)
       \cup { Append(q, x) : q \in { r \in SeqsUpTo(S, n - 1) : Len(r) = n - 1 },
                             x \in S }

Servers ==
  [sizes : SeqsUpTo(PageSizes, MaxPages) \ {<<>>},
   form : {"list", "object"},
   style : {"github", "next_only", "tight", "cycle"}]

\* the cache file the client of a pagination was constructed over: none,
\* or one with a fresh entry under the key of the first page request
PageFiles ==
  { NoFile,
    MapFile(_cache_key(FirstUrl, ACCEPT_JSON)
              :> [shape |-> "ok",
                  e |-> CacheEntry(E2, FirstUrl, 200, "ETag" :> E2, B2,
                                   StartEpoch)]) }

\* a client, a server and a generator that is about to be consumed
PaginateInit ==
  /\ file \in PageFiles
  /\ LET c == Construct(Kwargs("auto", 1, TRUE, TRUE), WithToken, file, StartEpoch)
     IN cfg = c.cfg /\ cache = c.cache
  /\ pc = "idle"
  /\ now = StartEpoch
  /\ ticks = 0
  /\ calls = 0
  /\ call = NoCall
  /\ result = NoOutcome
  /\ net = 0
  /\ returned = EmptyDict
  /\ srv \in Servers
  /\ \E item_key \in {None, Some(<<"items">>)},
        limit_pages \in {[present |-> FALSE, v |-> 0]}
                        \cup {[present |-> TRUE, v |-> n] : n \in 0..MaxPages} :
       /\ pg = Generator(FirstPath, <<>>, item_key, limit_pages, "default")
       \* a chain without end is only read under a page cap
       /\ srv.style = "cycle" => limit_pages.present

(***************************************************************************)
(* Construction over a cache file that is already there.                   *)
(***************************************************************************)
\* the attributes before __init__ has run
Unbuilt(args, environ) ==
  [auth |-> args.auth, max_retries |-> args.max_retries,
   backoff_base_ms |-> args.backoff_base_ms,
   backoff_max_ms |-> args.backoff_max_ms,
   cache_enabled |-> FALSE, token |-> None, args |-> args,
   environ |-> environ]

\* GitHubClient(...) is called: it returns a client or raises
ConstructClient ==
  /\ pc = "new"
  /\ LET c == Construct(cfg.args, cfg.environ, file, now)
     IN IF c.raised = "none"
        THEN /\ pc' = "idle"
             /\ cfg' = c.cfg
             /\ cache' = c.cache
             /\ result' = result
        ELSE /\ pc' = "failed"
             /\ cfg' = cfg
             /\ cache' = cache
             /\ result' = Outcome(c.raised, NoData, FALSE, 0)
  /\ UNCHANGED <<file, now, ticks, calls, call, net, returned>>

\* the time of the construction
LoadTime == StartEpoch + 2 * MaxAge

\* an entry stored age seconds before LoadTime
StoredEntry(age, typed) ==
  [etag |-> IF typed = "ok" THEN E1 ELSE <<>>,
   url |-> BASE_URL \o <<"/", "r">>, status_code |-> 200,
   headers |-> "ETag" :> E1, body_text |-> B1,
   saved_at_epoch |-> LoadTime - age, typed |-> typed]

\* what a key of the file's JSON object may hold
EntryData ==
  { [shape |-> "ok", e |-> StoredEntry(age, "ok")] :
      age \in {0, MaxAge - 1, MaxAge, MaxAge + 1} }
  \cup { [shape |-> "etag_null", e |-> StoredEntry(0, "etag_null")] }
  \cup { [shape |-> s, e |-> NoEntry] :
           s \in {"missing_field", "extra_field", "not_mapping", "saved_at_str"} }

\* the keys of the file: the key of GET /r, and a caller's cache_key
FileKeys == { _cache_key(BASE_URL \o <<"/", "r">>, ACCEPT_JSON), <<"k">> }

\* the cache files the model constructs a client over
LoadFiles ==
  { NoFile }
  \cup { [exists |-> TRUE, kind |-> kind, raw |-> EmptyDict] :
           kind \in {"bad_utf8", "corrupt", "list", "scalar"} }
  \cup { MapFile(raw) : raw \in UNION { [K -> EntryData] : K \in SUBSET FileKeys } }

LoadInit ==
  /\ pc = "new"
  /\ \E enabled \in BOOLEAN, path \in BOOLEAN :
       cfg = Unbuilt(Kwargs("auto", 0, enabled, path), WithToken)
  /\ file \in LoadFiles
  /\ now = LoadTime
  /\ cache = EmptyDict
  /\ ticks = 0
  /\ calls = 0
  /\ call = NoCall
  /\ result = NoOutcome
  /\ net = 0
  /\ returned = EmptyDict

\* the cache files with well-formed entries only, and no file at all
WellFormedFiles ==
  { f \in LoadFiles :
      f.kind = "map" /\ \A k \in DOMAIN f.raw : f.raw[k].shape = "ok" }

\* a client is about to be constructed over a well-formed cache file
ReloadInit ==
  /\ LoadInit
  /\ file \in WellFormedFiles

(***************************************************************************)
(* _build_url as a function of its arguments.                              *)
(***************************************************************************)
VARIABLES
  u_path,    \* the path argument
  u_params,  \* the params argument: the items of the dict, in insertion order
  u_url      \* the URL built from them, None before the call

urlVars == <<u_path, u_params, u_url>>

MaxParams == 3

UrlPaths ==
  { <<"/", "r">>, <<"r">>, <<"/", "/", "r", "/", "s">>,
    <<"https://", "h", "/", "x">>,
    <<"http://", "h", "/", "l", "?", "page", "=", "2">> }

\* the items a params dict of the model is made of
UrlItems ==
  { <<<<"a">>, <<"1">>>>, <<<<"b">>, <<"2">>>>, <<<<"a", "b">>, <<"1">>>>,
    <<<<"B">>, <<"x", " ", "y">>>> }

\* the dicts over UrlItems with at most MaxParams keys, in every insertion
\* order
UrlParams ==
  { q \in SeqsUpTo(UrlItems, MaxParams) :
      \A i, j \in 1..Len(q) : i # j => q[i][1] # q[j][1] }

UrlInit ==
  /\ u_path \in UrlPaths
  /\ u_params \in UrlParams
  /\ u_url = None

UrlIdle ==
  /\ u_path = <<>>
  /\ u_params = <<>>
  /\ u_url = None

\* url = self._build_url(path, params)
BuildUrl ==
  /\ ~u_url.present
  /\ u_url' = Some(_build_url(u_path, u_params))
  /\ UNCHANGED <<u_path, u_params>>

(***************************************************************************)
(* Staleness (staleness.py, dates.py).  A date is [y, m, d]; a date string *)
(* is a str, one character per element.                                    *)
(***************************************************************************)
VARIABLES
  st_repos,       \* the repos argument
  st_thresholds,  \* <<warning_days, critical_days>>
  st_out          \* what compute_staleness did, None before the call

stVars == <<st_repos, st_thresholds, st_out>>

WARNING_DAYS == 75
CRITICAL_DAYS == 90
MaxRepos == 2

\* s.split("-") for a str s
RECURSIVE SplitDash(_, _)
SplitDash(s, part) ==
  IF Len(s) = 0 THEN <<part>>
  ELSE IF s[1] = "-" THEN <<part>> \o SplitDash(Tail(s), <<>>)
  ELSE SplitDash(Tail(s), Append(part, s[1]))

IsLeap(y) == (y % 4 = 0 /\ y % 100 # 0) \/ y % 400 = 0

DaysInMonth(y, m) ==
  IF m = 2 THEN (IF IsLeap(y) THEN 29 ELSE 28)
  ELSE IF m \in {4, 6, 9, 11} THEN 30 ELSE 31

RECURSIVE DaysBeforeMonth(_, _)
DaysBeforeMonth(y, m) ==
  IF m <= 1 THEN 0 ELSE DaysBeforeMonth(y, m - 1) + DaysInMonth(y, m - 1)

\* date.toordinal()
ToOrdinal(dt) ==
  365 * (dt.y - 1) + ((dt.y - 1) \div 4) - ((dt.y - 1) \div 100)
  + ((dt.y - 1) \div 400) + DaysBeforeMonth(dt.y, dt.m) + dt.d

NoDate == [present |-> FALSE, v |-> [y |-> 1, m |-> 1, d |-> 1]]

\* the directive %m or %d on a part of the string: one or two digits, no
\* "00" and no "0"; %d also takes a blank before one digit
FieldValue(part, blank_ok) ==
  IF Len(part) = 2 /\ blank_ok /\ part[1] = " " /\ IsDigit(part[2])
  THEN DigitsVal(<<part[2]>>)
  ELSE IF Len(part) \in {1, 2} /\ AllDigits(part) THEN DigitsVal(part)
  ELSE 0

\* datetime.strptime(s, "%Y-%m-%d").date(), None on ValueError or TypeError;
\* v is [kind, s], kind "str" or another type
parse_date(v) ==
  IF v.kind # "str" THEN NoDate
  ELSE LET parts == SplitDash(v.s, <<>>)
       IN IF Len(parts) # 3 THEN NoDate
          ELSE LET yOk == Len(parts[1]) = 4 /\ AllDigits(parts[1])
                   y == IF yOk THEN DigitsVal(parts[1]) ELSE 0
                   m == FieldValue(parts[2], FALSE)
                   d == FieldValue(parts[3], TRUE)
               IN IF /\ yOk /\ y >= 1
                     /\ m \in 1..12
                     /\ d \in 1..31
                     /\ d <= DaysInMonth(y, m)
                  THEN [present |-> TRUE, v |-> [y |-> y, m |-> m, d |-> d]]
                  ELSE NoDate

\* days_since(date_str, today)
days_since(v, today) ==
  LET parsed == parse_date(v)
  IN IF ~parsed.present THEN [present |-> FALSE, v |-> 0]
     ELSE [present |-> TRUE, v |-> ToOrdinal(today) - ToOrdinal(parsed.v)]

StalenessResult(repo_name, file_stem, last_touched, days_stale, severity) ==
  [repo_name |-> repo_name, file_stem |-> file_stem,
   last_touched |-> last_touched, days_stale |-> days_stale,
   severity |-> severity]

\* Path(file_path).stem for a path of name tokens, "/" and a suffix token
SuffixTokens == {".yaml", ".yml"}
RECURSIVE LastComponent(_, _)
LastComponent(path, acc) ==
  IF Len(path) = 0 THEN acc
  ELSE IF path[1] = "/" THEN LastComponent(Tail(path), <<>>)
  ELSE LastComponent(Tail(path), Append(acc, path[1]))
PathStem(path) ==
  LET name == LastComponent(path, <<>>)
  IN IF Len(name) > 1 /\ name[Len(name)] \in SuffixTokens
     THEN SubSeq(name, 1, Len(name) - 1)
     ELSE name

(***************************************************************************)
(* A repo is the dict of a YAML descriptor:                                *)
(*   file, path    the values of "_file" and "_path", None when absent     *)
(*   status        "absent", "map" (a mapping) or "null" (YAML null)       *)
(*   last_touched  [kind, s] under status: kind "absent", "null", "str",   *)
(*                 or "date" for a value YAML has turned into a date       *)
(*   origin, name  likewise "absent" | "map" | "null", and origin's name   *)
(***************************************************************************)
Repo(file_name, path, status, last_touched, origin, name) ==
  [file |-> file_name, path |-> path, status |-> status,
   last_touched |-> last_touched, origin |-> origin, name |-> name]

LT(kind, s) == [kind |-> kind, s |-> s]

\* not last_touched
Falsy(lt) == lt.kind \in {"absent", "null"} \/ (lt.kind = "str" /\ Len(lt.s) = 0)

\* the severity of a number of days (lines 63-70)
Severity(days, warning_days, critical_days) ==
  IF ~days.present THEN "critical"
  ELSE IF days.v >= critical_days THEN "critical"
  ELSE IF days.v >= warning_days THEN "warning"
  ELSE "ok"

\* one pass of the loop body (lines 39-80): raised names the exception of
\* status.get or origin.get on a value that is not a mapping
StalenessOf(repo, warning_days, critical_days, today) ==
  LET file_name == IF repo.file.present THEN repo.file.v ELSE <<>>
      file_path == IF repo.path.present THEN repo.path.v ELSE <<>>
      file_stem == IF Len(file_name) > 0 THEN file_name
                   ELSE IF Len(file_path) > 0 THEN PathStem(file_path)
                   ELSE <<>>
      lt == IF repo.status = "map" THEN repo.last_touched ELSE LT("absent", <<>>)
      repo_name == IF repo.origin = "map" /\ repo.name.present
                   THEN repo.name.v ELSE file_stem
      days == days_since(lt, today)
  IN IF repo.status = "null" \/ repo.origin = "null"
     THEN [raised |-> "AttributeError",
           r |-> StalenessResult(<<>>, <<>>, LT("null", <<>>),
                                 [present |-> FALSE, v |-> 0], "critical")]
     ELSE IF Falsy(lt)
     THEN [raised |-> "none",
           r |-> StalenessResult(repo_name, file_stem, LT("null", <<>>),
                                 [present |-> FALSE, v |-> 0], "critical")]
     ELSE [raised |-> "none",
           r |-> StalenessResult(repo_name, file_stem, lt, days,
                                 Severity(days, warning_days, critical_days))]

\* compute_staleness(repos, warning_days, critical_days, today): the
\* results, or the exception that ends the loop
RECURSIVE compute_staleness(_, _, _, _)
compute_staleness(repos, warning_days, critical_days, today) ==
  IF Len(repos) = 0 THEN [raised |-> "none", results |-> <<>>]
  ELSE LET one == StalenessOf(repos[1], warning_days, critical_days, today)
           rest == compute_staleness(Tail(repos), warning_days,
                                     critical_days, today)
       IN IF one.raised # "none"
          THEN [raised |-> one.raised, results |-> <<>>]
          ELSE [raised |-> rest.raised,
                results |-> IF rest.raised = "none"
                            THEN <<one.r>> \o rest.results ELSE <<>>]

\* the day the model calls compute_staleness on
Today == [y |-> 2026, m |-> 1, d |-> 14]


\* the values of last_touched the model uses
DateStrings ==
  { <<"2","0","2","6","-","0","1","-","1","4">>,
    <<"2","0","2","6","-","0","1","-","0","1">>,
    <<"2","0","2","5","-","1","1","-","0","1">>,
    <<"2","0","2","5","-","1","0","-","3","1">>,
    <<"2","0","2","5","-","1","0","-","1","7">>,
    <<"2","0","2","5","-","1","0","-","1","6">>,
    <<"2","0","2","4","-","0","2","-","2","9">>,
    <<"2","0","2","6","-","0","2","-","0","1">>,
    <<"2","0","2","6","-","1","-","5">>,
    <<"2","0","2","5","-","0","2","-","2","9">>,
    <<"2","0","2","6","-","1","3","-","0","1">>,
    <<"0","1","-","0","1","-","2","0","2","6">>,
    <<"n","o","t","-","a","-","d","a","t","e">> }

LastTouchedSamples ==
  { LT("absent", <<>>), LT("null", <<>>), LT("str", <<>>),
    LT("date", <<>>) }
  \cup { LT("str", s) : s \in DateStrings }

FileA == Some(<<"a", ".yaml">>)
PathB == Some(<<"repos", "/", "b", ".yaml">>)

\* the repos the model uses: a described repo with every last_touched, and
\* repos that lack a status, an origin or a file name, or hold a YAML null
RepoSamples ==
  { Repo(FileA, None, "map", lt, "map", Some(<<"n">>)) : lt \in LastTouchedSamples }
  \cup { Repo(FileA, None, "absent", LT("absent", <<>>), "absent", None),
         Repo(None, PathB, "map", LT("str", <<"2","0","2","6","-","0","1","-","0","1">>), "map", None),
         Repo(None, None, "map", LT("absent", <<>>), "absent", None),
         Repo(FileA, None, "null", LT("absent", <<>>), "map", Some(<<"n">>)),
         Repo(FileA, None, "map", LT("absent", <<>>), "null", None) }

ThresholdSamples ==
  { <<WARNING_DAYS, CRITICAL_DAYS>>, <<7, 14>>, <<CRITICAL_DAYS, WARNING_DAYS>> }

NoStaleness == [present |-> FALSE, raised |-> "none", results |-> <<>>]

StalenessInit ==
  /\ st_repos \in SeqsUpTo(RepoSamples, MaxRepos)
  /\ st_thresholds \in ThresholdSamples
  /\ st_out = NoStaleness

StalenessIdle ==
  /\ st_repos = <<>>
  /\ st_thresholds = <<WARNING_DAYS, CRITICAL_DAYS>>
  /\ st_out = NoStaleness

\* results = compute_staleness(repos, warning_days, critical_days, today)
ComputeStaleness ==
  /\ ~st_out.present
  /\ LET r == compute_staleness(st_repos, st_thresholds[1], st_thresholds[2], Today)
     IN st_out' = [present |-> TRUE, raised |-> r.raised, results |-> r.results]
  /\ UNCHANGED <<st_repos, st_thresholds>>

(***************************************************************************)
(* Two processes, one cache path.  Each process constructs a client, makes *)
(* calls that store entries, and closes.  _save_cache is not atomic:       *)
(* open(cache_path, "w") truncates the file, and the bytes of json.dump    *)
(* reach it when the with block closes it; another process may act in      *)
(* between.  Every handle writes from offset 0, so bytes an overlapping    *)
(* longer write left behind the end of a shorter one stay in the file.     *)
(* Lengths are counted in entries: the entries of the model serialize to   *)
(* the same number of bytes.                                               *)
(***************************************************************************)
VARIABLES
  sh_pc,      \* per process: "new" | "idle" | "writing" | "closing" | "closed"
  sh_cache,   \* per process: self._cache
  sh_file,    \* the file at the shared cache_path
  sh_len,     \* the length of the file
  sh_stores,  \* per process: how many entries it has stored
  sh_writer   \* the process whose write completed last, 0 for none

shVars == <<sh_pc, sh_cache, sh_file, sh_len, sh_stores, sh_writer>>

Procs == {1, 2}
MaxStores == 2

\* a file open(path, "w") has just truncated, or one with bytes of two
\* writes: json.load raises JSONDecodeError on both
Unreadable == [exists |-> TRUE, kind |-> "corrupt", raw |-> EmptyDict]

\* the length of json.dump's output for the cache c: braces and entries
DumpLen(c) == 1 + Cardinality(DOMAIN c)

SharedInit ==
  /\ sh_pc = [p \in Procs |-> "new"]
  /\ sh_cache = [p \in Procs |-> EmptyDict]
  /\ sh_file = NoFile
  /\ sh_len = 0
  /\ sh_stores = [p \in Procs |-> 0]
  /\ sh_writer = 0

SharedIdle ==
  /\ sh_pc = [p \in Procs |-> "closed"]
  /\ sh_cache = [p \in Procs |-> EmptyDict]
  /\ sh_file = NoFile
  /\ sh_len = 0
  /\ sh_stores = [p \in Procs |-> 0]
  /\ sh_writer = 0

\* GitHubClient(cache_path=...) in process p: _load_cache reads the file
SharedConstruct(p) ==
  /\ sh_pc[p] = "new"
  /\ LET c == Construct(Kwargs("auto", 0, TRUE, TRUE), WithToken, sh_file,
                        StartEpoch)
     IN /\ c.raised = "none"
        /\ sh_cache' = [sh_cache EXCEPT ![p] = c.cache]
  /\ sh_pc' = [sh_pc EXCEPT ![p] = "idle"]
  /\ UNCHANGED <<sh_file, sh_len, sh_stores, sh_writer>>

\* a request() of process p stores the entry of an expected response with
\* an ETag (lines 290-297) and enters _save_cache up to open(..., "w")
SharedStore(p) ==
  /\ sh_pc[p] = "idle"
  /\ sh_stores[p] < MaxStores
  /\ \E key \in FileKeys,
        response \in {Response(200, "ETag" :> E1, B1),
                      Response(200, "ETag" :> E2, B2)} :
       sh_cache' = [sh_cache EXCEPT
                      ![p] = Put(@, key, NewEntry(BASE_URL \o <<"/", "r">>,
                                                  response, StartEpoch))]
  /\ sh_stores' = [sh_stores EXCEPT ![p] = @ + 1]
  /\ sh_pc' = [sh_pc EXCEPT ![p] = "writing"]
  /\ sh_file' = Unreadable
  /\ sh_len' = 0
  /\ UNCHANGED sh_writer

\* close() of process p enters _save_cache up to open(..., "w")
SharedClose(p) ==
  /\ sh_pc[p] = "idle"
  /\ sh_pc' = [sh_pc EXCEPT ![p] = "closing"]
  /\ sh_file' = Unreadable
  /\ sh_len' = 0
  /\ UNCHANGED <<sh_cache, sh_stores, sh_writer>>

\* the with block of _save_cache ends in process p: the bytes of json.dump
\* are written from offset 0 and the handle is closed
SharedFlush(p) ==
  /\ sh_pc[p] \in {"writing", "closing"}
  /\ IF sh_len <= DumpLen(sh_cache[p])
     THEN /\ sh_file' = _save_cache(TRUE, sh_cache[p], sh_file)
          /\ sh_len' = DumpLen(sh_cache[p])
     ELSE \* the end of a longer write stays behind the new bytes
          /\ sh_file' = Unreadable
          /\ sh_len' = sh_len
  /\ sh_pc' = [sh_pc EXCEPT ![p] = IF @ = "writing" THEN "idle" ELSE "closed"]
  /\ sh_writer' = p
  /\ UNCHANGED <<sh_cache, sh_stores>>

(***************************************************************************)
(* Specifications.                                                         *)
(***************************************************************************)
vars == <<retryVars, clientVars, pageVars, urlVars, stVars, shVars>>

\* the retry policy alone; the client stays as constructed
RetryIdle == rt_cfg = [backoff_base_ms |-> ToMs(1), backoff_max_ms |-> ToMs(60)]
             /\ rt_response = Response(0, EmptyDict, NoText)
             /\ rt_now = RetryNow /\ rt_attempt = 0 /\ rt_last = NoRetryResult

ClientIdle ==
  /\ cfg = Construct([auth |-> "auto", max_retries |-> 0,
                      backoff_base_ms |-> ToMs(1), backoff_max_ms |-> ToMs(60),
                      cache_enabled |-> FALSE, cache_path |-> TRUE],
                     EmptyDict, NoFile, StartEpoch).cfg
  /\ pc = "idle" /\ cache = EmptyDict /\ file = NoFile /\ now = StartEpoch
  /\ ticks = 0 /\ calls = 0 /\ call = NoCall /\ result = NoOutcome
  /\ net = 0 /\ returned = EmptyDict

PageIdle == pg = NoGenerator /\ srv = [sizes |-> <<>>, form |-> "list", style |-> "github"]

InitRetry == RetryInit /\ ClientIdle /\ PageIdle /\ UrlIdle /\ StalenessIdle /\ SharedIdle
NextRetry == RetryStep /\ UNCHANGED <<clientVars, pageVars, urlVars, stVars, shVars>>
SpecRetry == InitRetry /\ [][NextRetry]_vars

Init == ClientInit /\ RetryIdle /\ PageIdle /\ UrlIdle /\ StalenessIdle /\ SharedIdle
Next ==
  \/ StartRequest /\ UNCHANGED <<retryVars, pageVars, urlVars, stVars, shVars>>
  \/ AttemptResponse /\ UNCHANGED <<retryVars, pageVars, urlVars, stVars, shVars>>
  \/ AttemptTransportError /\ UNCHANGED <<retryVars, pageVars, urlVars, stVars, shVars>>
  \/ Tick /\ UNCHANGED <<retryVars, pageVars, urlVars, stVars, shVars>>
  \/ CloseAndRestart /\ UNCHANGED <<retryVars, pageVars, urlVars, stVars, shVars>>
  \/ Restart /\ UNCHANGED <<retryVars, pageVars, urlVars, stVars, shVars>>
Spec == Init /\ [][Next]_vars

\* a pagination: the generator, the request engine under it, the server
InitPaginate == PaginateInit /\ RetryIdle /\ UrlIdle /\ StalenessIdle /\ SharedIdle
NextPaginate ==
  \/ PaginateLoop /\ UNCHANGED <<retryVars, urlVars, stVars, shVars>>
  \/ AttemptPage /\ UNCHANGED <<retryVars, pageVars, urlVars, stVars, shVars>>
  \/ AttemptTransportError /\ UNCHANGED <<retryVars, pageVars, urlVars, stVars, shVars>>
  \/ PaginateConsume /\ UNCHANGED <<retryVars, urlVars, stVars, shVars>>
SpecPaginate == InitPaginate /\ [][NextPaginate]_vars

\* the construction of a client over a cache file
InitLoad == LoadInit /\ RetryIdle /\ PageIdle /\ UrlIdle /\ StalenessIdle /\ SharedIdle
NextLoad == ConstructClient /\ UNCHANGED <<retryVars, pageVars, urlVars, stVars, shVars>>
SpecLoad == InitLoad /\ [][NextLoad]_vars

\* _build_url applied to a path and a params dict
InitUrl == UrlInit /\ RetryIdle /\ ClientIdle /\ PageIdle /\ StalenessIdle /\ SharedIdle
NextUrl == BuildUrl /\ UNCHANGED <<retryVars, clientVars, pageVars, stVars, shVars>>
SpecUrl == InitUrl /\ [][NextUrl]_vars

\* a client constructed over a well-formed cache file, its calls, and the
\* processes that follow it
InitReload == ReloadInit /\ RetryIdle /\ PageIdle /\ UrlIdle /\ StalenessIdle /\ SharedIdle
NextReload ==
  \/ ConstructClient /\ UNCHANGED <<retryVars, pageVars, urlVars, stVars, shVars>>
  \/ StartRequest /\ UNCHANGED <<retryVars, pageVars, urlVars, stVars, shVars>>
  \/ AttemptResponse /\ UNCHANGED <<retryVars, pageVars, urlVars, stVars, shVars>>
  \/ AttemptTransportError /\ UNCHANGED <<retryVars, pageVars, urlVars, stVars, shVars>>
  \/ CloseAndRestart /\ UNCHANGED <<retryVars, pageVars, urlVars, stVars, shVars>>
SpecReload == InitReload /\ [][NextReload]_vars

\* compute_staleness applied to a list of repos
InitStaleness == StalenessInit /\ RetryIdle /\ ClientIdle /\ PageIdle /\ UrlIdle /\ SharedIdle
NextStaleness == ComputeStaleness /\ UNCHANGED <<retryVars, clientVars, pageVars, urlVars, shVars>>
SpecStaleness == InitStaleness /\ [][NextStaleness]_vars

\* two client processes over one cache path
InitShared == SharedInit /\ RetryIdle /\ ClientIdle /\ PageIdle /\ UrlIdle /\ StalenessIdle
NextShared ==
  \/ (\E p \in Procs : SharedConstruct(p))
       /\ UNCHANGED <<retryVars, clientVars, pageVars, urlVars, stVars>>
  \/ (\E p \in Procs : SharedStore(p))
       /\ UNCHANGED <<retryVars, clientVars, pageVars, urlVars, stVars>>
  \/ (\E p \in Procs : SharedClose(p))
       /\ UNCHANGED <<retryVars, clientVars, pageVars, urlVars, stVars>>
  \/ (\E p \in Procs : SharedFlush(p))
       /\ UNCHANGED <<retryVars, clientVars, pageVars, urlVars, stVars>>
SpecShared == InitShared /\ [][NextShared]_vars

(***************************************************************************)
(* Claims about the retry policy (checked under SpecRetry).                *)
(***************************************************************************)
\* the same letter, whatever its case
SameLetter(a, b) ==
  \/ a = b
  \/ \E i \in 1..Len(UpperChars) :
       {a, b} = {UpperChars[i], LowerChars[i]}

\* hay contains needle case-insensitively
ContainsCI(needle, hay) ==
  \E i \in 1..(Len(hay) - Len(needle) + 1) :
     \A j \in 1..Len(needle) : SameLetter(hay[i + j - 1], needle[j])

\* the retry predicate as the specification words it
ClaimedRetry(r) ==
  \/ r.status = 429
  \/ r.status >= 500
  \/ /\ r.status = 403
     /\ \/ (Has(r.headers, "X-RateLimit-Remaining")
            /\ r.headers["X-RateLimit-Remaining"] = <<"0">>)
        \/ (r.text.json = "object" /\ r.text.msg = "str"
            /\ ContainsCI(RATE_LIMIT, r.text.message))

\* C7: the retry decision for a response is TRUE exactly when its status is
\* 429, or at least 500, or 403 with X-RateLimit-Remaining "0" or a JSON
\* message that contains 'rate limit' in any letter case; a 403 with an
\* unrelated message or a malformed body, and a 404, are not retried.
Thm_C7_RetryDecision ==
  rt_last.valid =>
    /\ rt_last.retry <=> ClaimedRetry(rt_response)
    /\ (rt_response.status = 404 => ~rt_last.retry)
    /\ (rt_response.status = 403
        /\ ~Has(rt_response.headers, "X-RateLimit-Remaining")
        /\ rt_response.text.json = "malformed" => ~rt_last.retry)

\* a 403 whose mixed-case message names the rate limit has been classified
Wit_C7_MixedCaseMessage ==
  /\ rt_last.valid
  /\ rt_last.retry
  /\ rt_response.status = 403
  /\ ~Has(rt_response.headers, "X-RateLimit-Remaining")
  /\ rt_response.text.msg = "str"
  /\ ~Contains(RATE_LIMIT, rt_response.text.message)

RetryAfterOf(r) == Get(r.headers, "Retry-After", <<>>)

\* C8: for a retryable response whose Retry-After parses as a number the
\* delay is exactly that number of seconds, whatever rate-limit headers,
\* attempt index and backoff bounds go with it (Retry-After: 5 gives 5 s).
Thm_C8_RetryAfterWins ==
  (rt_last.valid /\ rt_last.retry /\ ParseFloat(RetryAfterOf(rt_response)).ok)
  => /\ rt_last.delay = ParseFloat(RetryAfterOf(rt_response)).v
     /\ (RetryAfterOf(rt_response) = <<"5">> => rt_last.delay = 5000)
     /\ (RetryAfterOf(rt_response) = <<"1", ".", "5">> => rt_last.delay = 1500)
     /\ (RetryAfterOf(rt_response) = <<"0">> => rt_last.delay = 0)

\* Retry-After: 5 met together with a usable rate-limit reset
Wit_C8_RetryAfterWithReset ==
  /\ rt_last.valid
  /\ rt_last.retry
  /\ RetryAfterOf(rt_response) = <<"5">>
  /\ Get(rt_response.headers, "X-RateLimit-Remaining", <<>>) = <<"0">>
  /\ Get(rt_response.headers, "X-RateLimit-Reset", <<>>) = <<"1", "0", "0", "5">>
  /\ rt_last.attempt = 2
  /\ rt_last.delay = 5000

\* a retryable response that carries neither a Retry-After header nor a
\* usable rate-limit reset has been timed
ExpCase ==
  /\ rt_last.valid
  /\ rt_last.retry
  /\ ~Has(rt_response.headers, "Retry-After")
  /\ ~(/\ Get(rt_response.headers, "X-RateLimit-Remaining", <<>>) = <<"0">>
       /\ ParseInt(Get(rt_response.headers, "X-RateLimit-Reset", <<>>)).ok)

\* min(backoff_max_s, backoff_base_s * 2^a), in milliseconds
ClaimedBackoff(a) ==
  IF rt_cfg.backoff_base_ms * (2 ^ a) < rt_cfg.backoff_max_ms
  THEN rt_cfg.backoff_base_ms * (2 ^ a)
  ELSE rt_cfg.backoff_max_ms

\* C9 as stated: the delay is min(max, base * 2^a) plus a jitter in
\* [0, 0.25), is non-decreasing in a and is bounded above by the maximum.
Orig_C9_MonotoneBounded ==
  [][ExpCase' =>
       /\ rt_last'.delay = ClaimedBackoff(rt_last'.attempt) + rt_last'.jitter
       /\ rt_last'.jitter \in 0..(JITTER_RANGE_MS - 1)
       /\ rt_last'.delay <= rt_cfg.backoff_max_ms
       /\ (ExpCase => rt_last'.delay >= rt_last.delay)]_vars

\* C9 amended: the delay is min(max, base * 2^a) plus a jitter in [0, 0.25);
\* the part before the jitter is non-decreasing in a and at most the
\* maximum, so the delay stays below the maximum plus 0.25 s (base 1.0,
\* max 60, a = 3 gives a delay in [8.0, 8.25)).
Thm_C9_BackoffBeforeJitter ==
  [][ExpCase' =>
       /\ rt_last'.delay = ClaimedBackoff(rt_last'.attempt) + rt_last'.jitter
       /\ rt_last'.jitter \in 0..(JITTER_RANGE_MS - 1)
       /\ rt_last'.delay - rt_last'.jitter <= rt_cfg.backoff_max_ms
       /\ rt_last'.delay < rt_cfg.backoff_max_ms + JITTER_RANGE_MS
       /\ (ExpCase => rt_last'.delay - rt_last'.jitter
                        >= rt_last.delay - rt_last.jitter)
       /\ (rt_cfg.backoff_base_ms = 1000 /\ rt_cfg.backoff_max_ms = 60000
           /\ rt_last'.attempt = 3
           => rt_last'.delay >= 8000 /\ rt_last'.delay < 8250)]_vars

\* the capped case: defaults, attempt index 6, a jitter above zero
Wit_C9_CappedWithJitter ==
  /\ ExpCase
  /\ rt_cfg.backoff_base_ms = 1000
  /\ rt_cfg.backoff_max_ms = 60000
  /\ rt_last.attempt = 6
  /\ rt_last.delay = 60125

ResetOf(r) == Get(r.headers, "X-RateLimit-Reset", <<>>)

\* a retryable response without a numeric Retry-After, with an integer
\* X-RateLimit-Reset and X-RateLimit-Remaining "0", has been timed
ResetCase ==
  /\ rt_last.valid
  /\ rt_last.retry
  /\ ~ParseFloat(RetryAfterOf(rt_response)).ok
  /\ AllDigits(ResetOf(rt_response))
  /\ Get(rt_response.headers, "X-RateLimit-Remaining", <<>>) = <<"0">>

\* min(reset_epoch - now + 1, 300), in milliseconds
ClaimedResetDelay(reset_epoch, nowMs) ==
  IF 1000 * reset_epoch - nowMs + 1000 < 1000 * RESET_DELAY_CAP_S
  THEN 1000 * reset_epoch - nowMs + 1000
  ELSE 1000 * RESET_DELAY_CAP_S

\* C21 as stated: in the reset case the delay is min(reset_epoch - now + 1,
\* 300) seconds, whatever backoff_max_s is, and it is never negative, also
\* for a reset timestamp that lies in the past.
Orig_C21_ResetDelayNonNegative ==
  ResetCase
  => /\ rt_last.delay = ClaimedResetDelay(DigitsVal(ResetOf(rt_response)), rt_now)
     /\ rt_last.delay >= 0

(***************************************************************************)
(* Claims about the request engine and the cache (checked under Spec).     *)
(***************************************************************************)
\* C1: when every attempt of a call is answered with status 500, and 500 is
\* not expected, the call issues exactly max_retries + 1 network requests
\* and then raises an HTTP error with status 500 (7 requests for the
\* default max_retries = 6).
Thm_C1_AlwaysServerError ==
  (call.all500 /\ net >= 1 /\ 500 \notin call.expected)
  => /\ net <= cfg.max_retries + 1
     /\ pc = "attempting" => (net = call.attempt /\ result.kind = "none")
     /\ pc = "idle" => /\ net = cfg.max_retries + 1
                       /\ result.kind = "GitHubHTTPError"
                       /\ result.data.status_code = 500
                       /\ (cfg.max_retries = 6 => net = 7)

\* a call of a client with the default max_retries has met 500 seven times
Wit_C1_SevenRequests ==
  /\ pc = "idle"
  /\ cfg.max_retries = 6
  /\ call.all500
  /\ net = 7
  /\ call.sleeps = 6
  /\ result.kind = "GitHubHTTPError"

\* the effective auth mode of the current call, from its arguments
EffectiveAuth == IF call.auth = "default" THEN cfg.args.auth ELSE call.auth

\* C2: a call whose effective auth mode is 'required' on a client without a
\* token raises the authentication error with no network request issued,
\* no attempt and no sleep; and that error is raised in no other case.
Thm_C2_RequiredWithoutToken ==
  /\ (calls > 0 /\ call # NoCall /\ EffectiveAuth = "required"
      /\ ~Truthy(cfg.token))
     => (pc = "idle" /\ result.kind = "GitHubAuthError" /\ net = 0
         /\ call.attempt = 0 /\ call.sleeps = 0 /\ ~call.last.present)
  /\ result.kind = "GitHubAuthError"
     => (EffectiveAuth = "required" /\ ~Truthy(cfg.token) /\ net = 0)

\* a call with auth = 'required' has failed on a client whose first token
\* variable is set but empty
Wit_C2_AuthErrorRaised ==
  /\ result.kind = "GitHubAuthError"
  /\ call.auth = "required"
  /\ cfg.token.present
  /\ net = 0

\* the current call has ended by returning a cache entry on a 304
ReturnedOn304 ==
  /\ pc = "idle"
  /\ result.kind = "return"
  /\ call.last.present
  /\ call.last.r.status = 304
  /\ call.cached.present

\* C3: a GET with use_cache on, answered 304 on a cache hit, returns the
\* body, status and headers that the call which stored the entry returned.
Thm_C3_NotModifiedReturnsCached ==
  ReturnedOn304
  => /\ IsGet(call.method) /\ call.use_cache /\ cfg.cache_enabled
     /\ call.key \in DOMAIN returned
     /\ result.data.text = returned[call.key].text
     /\ result.data.status_code = returned[call.key].status_code
     /\ result.data.headers = returned[call.key].headers

\* the second call for a URL got 304 and returned the first call's body
Wit_C3_SecondCallNotModified ==
  /\ ReturnedOn304
  /\ calls = 2
  /\ call.url = BASE_URL \o <<"/", "r">>
  /\ call.key = _cache_key(call.url, ACCEPT_JSON)
  /\ returned[call.key].url = call.url
  /\ result.data.text = B2

\* C4 as stated: no call returns the content of a cache entry older than
\* the maximum age of 7 days.
Orig_C4_NoStaleEntryReturned ==
  (result.kind = "return" /\ result.from_cache) => result.age <= MaxAge

\* a step of a request() call
RequestStep == calls' # calls \/ pc = "attempting"

\* C5: request() changes the cache only when a GET with use_cache on gets a
\* response, not a 304 on a cache hit, whose status is expected and whose
\* ETag is not empty; then it sets the entry of the call's key to that
\* response and returns.  Retries, errors, transport failures and other
\* methods leave the cache as it is.
Thm_C5_CacheWrittenOnlyOnSuccess ==
  [][(RequestStep /\ cache' # cache)
     => /\ pc = "attempting"
        /\ IsGet(call.method)
        /\ call.use_cache
        /\ net' = net + 1
        /\ call'.last.present
        /\ call'.last.r.status \in call.expected
        /\ ~(call'.last.r.status = 304 /\ call.cached.present)
        /\ "ETag" \in DOMAIN call'.last.r.headers
        /\ call'.last.r.headers["ETag"] # <<>>
        /\ pc' = "idle"
        /\ result'.kind = "return"
        /\ \A k \in DOMAIN cache : k # call.key => (k \in DOMAIN cache' /\ cache'[k] = cache[k])
        /\ DOMAIN cache' = DOMAIN cache \cup {call.key}
        /\ cache'[call.key].etag = call'.last.r.headers["ETag"]
        /\ cache'[call.key].body_text = call'.last.r.text
        /\ cache'[call.key].status_code = call'.last.r.status]_vars

\* a call has overwritten the entry it found with a response of another ETag
Wit_C5_EntryOverwritten ==
  /\ pc = "idle"
  /\ result.kind = "return"
  /\ ~result.from_cache
  /\ call.cached.present
  /\ call.key \in DOMAIN cache
  /\ cache[call.key].etag # call.cached.e.etag

\* C14: a call whose method is not GET (in any letter case), or whose
\* use_cache is off, reads no cache entry, sends no If-None-Match (none but
\* one its caller passed in headers), changes
\* neither the in-memory cache nor the cache file at any of its steps, and
\* what it returns is the response of the server.
Thm_C14_CacheOnlyForOptedInGet ==
  [][(RequestStep /\ (~IsGet(call'.method) \/ ~call'.use_cache))
     => /\ cache' = cache
        /\ file' = file
        /\ ~call'.cached.present
        /\ NoValidatorFromCache(call')
        /\ result'.kind = "return"
             => /\ ~result'.from_cache
                /\ result'.data = DataOf(call'.url, call'.last.r)]_vars

\* a POST with use_cache on, to a URL whose GET is cached, has returned a
\* response with another ETag and the entry is still the one of the GET
Wit_C14_PostLeavesEntry ==
  /\ pc = "idle"
  /\ ~IsGet(call.method)
  /\ call.use_cache
  /\ cfg.cache_enabled
  /\ call.key \in DOMAIN cache
  /\ result.kind = "return"
  /\ result.data.headers = "ETag" :> E2
  /\ cache[call.key].etag = E1

\* the last call has ended in an error
CallFailed ==
  /\ pc = "idle"
  /\ calls > 0
  /\ result.kind \in {"GitHubAuthError", "GitHubHTTPError", "GitHubError"}

\* C15: no step of a call that does not return changes the in-memory
\* cache, the cache file or the attributes of the client, so a call that
\* ends in an authentication, HTTP or transport error leaves them as they
\* were; and the call that follows a failed one starts like any other:
\* prepared from the client as it is, at attempt 0, with no response seen,
\* no sleep and no network request counted.
Thm_C15_ErrorsArePerCall ==
  [][/\ (RequestStep /\ result'.kind # "return")
          => (cache' = cache /\ file' = file /\ cfg' = cfg)
     /\ (CallFailed /\ calls' = calls + 1)
          => /\ \E a \in RequestArgs : call' = Prepare(a, "caller").call
             /\ call'.attempt = 0
             /\ call'.sleeps = 0
             /\ ~call'.last.present
             /\ net' = 0
             /\ result'.kind \in {"none", "GitHubAuthError"}
             /\ result'.kind = "none"
                  => (pc' = "attempting" /\ CanRetry(call'.attempt, cfg.max_retries)
                                           = (cfg.max_retries > 0))]_vars

\* a call that found its entry in the cache has used up its attempts and
\* failed with an HTTP error; the entry is as it was
Wit_C15_FailedCallKeepsEntry ==
  /\ CallFailed
  /\ result.kind = "GitHubHTTPError"
  /\ cfg.max_retries = 1
  /\ net = 2
  /\ call.sleeps = 1
  /\ call.cached.present
  /\ call.key \in DOMAIN cache
  /\ cache[call.key] = call.cached.e
  /\ file.exists

\* every attempt of the current call so far has failed at transport level
OnlyTransportFailures == net >= 1 /\ ~call.last.present

\* C16: when every attempt of a call fails at transport level, the call
\* sleeps after each failure while attempts remain, makes exactly
\* max_retries + 1 attempts with max_retries sleeps, and then raises
\* GitHubError, not an HTTP error.
Thm_C16_TransportFailuresExhaust ==
  OnlyTransportFailures
  => /\ net <= cfg.max_retries + 1
     /\ pc = "attempting" => /\ net = call.attempt
                             /\ call.sleeps = net
                             /\ result.kind = "none"
     /\ pc = "idle" => /\ net = cfg.max_retries + 1
                       /\ call.sleeps = cfg.max_retries
                       /\ result.kind = "GitHubError"

\* seven connection errors in a row on a client with the default max_retries
Wit_C16_SevenTransportFailures ==
  /\ OnlyTransportFailures
  /\ pc = "idle"
  /\ cfg.max_retries = 6
  /\ net = 7
  /\ call.sleeps = 6
  /\ result.kind = "GitHubError"

\* the step is an attempt of the current call that got a response whose
\* status is neither expected by the call nor retryable
TerminalResponseStep ==
  /\ pc = "attempting"
  /\ net' = net + 1
  /\ call'.last.present
  /\ call'.last.r.status \notin call.expected
  /\ ~ClaimedRetry(call'.last.r)

\* the call ends with the HTTP error of the response just received, and
\* without a sleep
EndsWithHttpError ==
  /\ pc' = "idle"
  /\ call'.sleeps = call.sleeps
  /\ call'.attempt = call.attempt
  /\ result'.kind = "GitHubHTTPError"
  /\ result'.data.status_code = call'.last.r.status
  /\ result'.data.url = call.url
  /\ result'.data.text = call'.last.r.text
  /\ result'.data.headers = call'.last.r.headers

\* C17 as stated: every response whose status is neither expected nor
\* retryable ends the call at once with an HTTP error that carries the
\* status, URL, body text and headers of that response.
Orig_C17_TerminalResponseRaises ==
  [][TerminalResponseStep => EndsWithHttpError]_vars

\* C17: a response whose status is neither expected nor retryable, and
\* that is not a 304 answering a call which found its entry in the cache,
\* ends the call at once: no sleep, no further attempt, and an HTTP error
\* that carries the status, URL, body text and headers of that response.
\* A 304 on a cache hit makes the call return the cached entry instead.
Thm_C17_TerminalResponseRaises ==
  [][TerminalResponseStep
     => IF call'.last.r.status = 304 /\ call.cached.present
        THEN pc' = "idle" /\ result'.kind = "return" /\ result'.from_cache
        ELSE EndsWithHttpError]_vars

\* a 403 with an unrelated message has ended a call at its first attempt
Wit_C17_ForbiddenNotRetried ==
  /\ pc = "idle"
  /\ result.kind = "GitHubHTTPError"
  /\ result.data.status_code = 403
  /\ result.data.text = BNotFound
  /\ cfg.max_retries = 6
  /\ net = 1
  /\ call.sleeps = 0

\* the step is an attempt that failed at transport level, before any
\* response of the call, and was followed by a sleep
TransportRetryStep ==
  /\ pc = "attempting"
  /\ net' = net + 1
  /\ ~call'.last.present
  /\ call'.sleeps = call.sleeps + 1

\* C20 as stated: the sleep after a transport failure on attempt a is
\* min(backoff_max_s, backoff_base_s * 2^a) plus a jitter in [0, 0.25), so
\* it never exceeds backoff_max_s + 0.25.
Orig_C20_TransportBackoffCapped ==
  [][TransportRetryStep
     => /\ call'.delay - Min(cfg.backoff_max_ms,
                             cfg.backoff_base_ms * Pow(2, call.attempt))
             \in 0..(JITTER_RANGE_MS - 1)
        /\ call'.delay < cfg.backoff_max_ms + JITTER_RANGE_MS]_vars

\* the current (or last) call has reached the loop: its headers go out with
\* every attempt
HeadersSent == calls > 0 /\ (pc = "attempting" \/ net > 0)

\* the header names the client sets before it merges the caller's headers
SetBeforeMerge == {"Accept", "User-Agent", "X-GitHub-Api-Version", "Authorization"}

\* the value the caller gave wins for the names in S
CallerWins(S) ==
  \A name \in S \cap DOMAIN call.given :
     /\ name \in DOMAIN call.req_headers
     /\ call.req_headers[name] = call.given[name]

\* both fixed headers are sent, with the fixed values unless the caller
\* named them
FixedHeadersSent ==
  /\ "X-GitHub-Api-Version" \in DOMAIN call.req_headers
  /\ "User-Agent" \in DOMAIN call.req_headers
  /\ "X-GitHub-Api-Version" \notin DOMAIN call.given
       => call.req_headers["X-GitHub-Api-Version"] = API_VERSION
  /\ "User-Agent" \notin DOMAIN call.given
       => call.req_headers["User-Agent"] = USER_AGENT

\* C23 as stated: every request carries the API-version and the client
\* identifier header, and for Accept, User-Agent, X-GitHub-Api-Version,
\* Authorization and If-None-Match the value sent is the caller's whenever
\* the caller set one.
Orig_C23_CallerWinsAll ==
  HeadersSent
  => /\ FixedHeadersSent
     /\ CallerWins(SetBeforeMerge \cup {"If-None-Match"})

\* C23 amended: every request carries the API-version and the client
\* identifier header; for Accept, User-Agent, X-GitHub-Api-Version and
\* Authorization the value sent is the caller's whenever the caller set
\* one; If-None-Match is the ETag of the cache entry when the call found
\* one with a non-empty ETag, and the caller's value only otherwise.
Thm_C23_CallerWinsBeforeLookup ==
  HeadersSent
  => /\ FixedHeadersSent
     /\ CallerWins(SetBeforeMerge)
     /\ IF call.cached.present /\ Len(call.cached.e.etag) > 0
        THEN /\ "If-None-Match" \in DOMAIN call.req_headers
             /\ call.req_headers["If-None-Match"] = call.cached.e.etag
        ELSE CallerWins({"If-None-Match"})

\* a call that names all five headers has found an entry: four of its
\* values went out, and the ETag of the entry instead of the fifth
Wit_C23_EntryEtagOverCallers ==
  /\ HeadersSent
  /\ net > 0
  /\ DOMAIN call.given = SetBeforeMerge \cup {"If-None-Match"}
  /\ Truthy(cfg.token)
  /\ call.cached.present
  /\ call.req_headers["Authorization"] = call.given["Authorization"]
  /\ call.req_headers["Accept"] = call.given["Accept"]
  /\ call.req_headers["If-None-Match"] = E1
  /\ call.given["If-None-Match"] # E1

\* the step is the last one of the current call
CallEnds == pc = "attempting" /\ pc' = "idle"

\* C28 as stated: HTTP retries and transport retries count on one attempt
\* counter; whatever the order of retryable responses and transport
\* failures, a call makes at most max_retries + 1 network attempts, ends
\* by returning or raising, and when it raises, the error is the HTTP
\* error if the last attempt got a response and the generic error if the
\* last attempt failed at transport level.
Orig_C28_OneCounterLastAttemptDecides ==
  [][/\ net' <= cfg.max_retries + 1
     /\ pc = "attempting"
          => /\ call.attempt = net
             /\ net <= cfg.max_retries
             /\ net' = net + 1
             /\ net = cfg.max_retries => pc' = "idle"
     /\ CallEnds => result'.kind # "none"
     /\ (CallEnds /\ result'.kind # "return")
          => result'.kind = IF call'.ended = "response"
                            THEN "GitHubHTTPError"
                            ELSE "GitHubError"]_vars

\* the step is an attempt of the current call that got a response
ResponseStep == pc = "attempting" /\ call'.ended = "response"

\* C29: a response is classified in this order: a 304 for a call that found
\* a cache entry returns the entry; otherwise a status in the expected set
\* returns the response at once, with no sleep and no further attempt, also
\* when it is 429, at least 500 or a rate-limited 403; only then the retry
\* policy decides between another attempt and the HTTP error.
Thm_C29_ClassificationOrder ==
  [][ResponseStep =>
       LET r == call'.last.r
       IN IF r.status = 304 /\ call.cached.present
          THEN /\ pc' = "idle"
               /\ result'.kind = "return"
               /\ result'.from_cache
               /\ result'.data.text = call.cached.e.body_text
          ELSE IF r.status \in call.expected
          THEN /\ pc' = "idle"
               /\ result'.kind = "return"
               /\ ~result'.from_cache
               /\ result'.data = DataOf(call.url, r)
               /\ call'.sleeps = call.sleeps
               /\ call'.attempt = call.attempt
          ELSE IF ClaimedRetry(r) /\ call.attempt < cfg.max_retries
          THEN \/ pc' = "attempting" /\ call'.sleeps = call.sleeps + 1
               \/ result'.kind = "ValueError"
          ELSE /\ pc' = "idle"
               /\ result'.kind = "GitHubHTTPError"]_vars

\* a call that expects 500, on a client with retries to spare, has been
\* answered 500 and has returned it after one attempt
Wit_C29_ExpectedServerError ==
  /\ pc = "idle"
  /\ cfg.max_retries > 0
  /\ 500 \in call.expected
  /\ call.last.present
  /\ call.last.r.status = 500
  /\ _should_retry(call.last.r)
  /\ net = 1
  /\ call.sleeps = 0
  /\ result.kind = "return"
  /\ result.data.status_code = 500

\* what an attempt of the call with locals c puts on the wire
Wire(c) == <<c.method, c.url, c.req_headers, c.json_body>>

RECURSIVE ItemsFrom(_)
ItemsFrom(i) ==
  IF i > Len(srv.sizes) THEN <<>>
  ELSE [j \in 1..srv.sizes[i] |-> 10 * i + j] \o ItemsFrom(i + 1)

\* the chain ends, the generator reads the bodies the way the server writes
\* them, and no page cap cuts the chain short
ReadsWholeChain ==
  /\ srv.style # "cycle"
  /\ srv.form = "list" \/ pg.item_key = Some(<<"items">>)
  /\ ~pg.limit_pages.present \/ pg.limit_pages.v >= Len(srv.sizes)

\* C10: over a chain of k pages, of which only the last has no next link, a
\* fully consumed paginate() has fetched exactly k pages, with exactly k
\* network requests when each page request was answered at once, and has
\* yielded every item of every page in page order and body order.
Thm_C10_PaginationWalksChain ==
  (pg.status = "done" /\ ReadsWholeChain)
  => /\ pg.pages_fetched = Len(srv.sizes)
     /\ calls = Len(srv.sizes)
     /\ pg.clean => pg.requests = Len(srv.sizes)
     /\ pg.yielded = ItemsFrom(1)
     /\ ~Truthy(pg.url)

\* three pages in GitHub's Link style, the second one empty, read to the end
Wit_C10_ThreePages ==
  /\ pg.status = "done"
  /\ ReadsWholeChain
  /\ srv.sizes = <<2, 0, 2>>
  /\ srv.style = "github"
  /\ srv.form = "object"
  /\ pg.clean
  /\ pg.requests = 3
  /\ pg.yielded = <<11, 12, 31, 32>>

\* C11: paginate() stops as soon as a page has no next link or limit_pages
\* pages have been fetched: from then on it makes no request() call and is
\* exhausted; with limit_pages = L it never makes more than L page requests
\* (request() calls), none for L = 0, even when every page names a next one.
Thm_C11_PaginationStops ==
  [][/\ pg.limit_pages.present
          => /\ calls' <= pg.limit_pages.v
             /\ pg'.pages_fetched <= pg.limit_pages.v
     /\ (/\ pg.status = "running"
         /\ \/ ~Truthy(pg.url)
            \/ pg.limit_pages.present /\ pg.pages_fetched >= pg.limit_pages.v)
          => (calls' = calls /\ net' = net /\ pg'.status = "done")
     /\ pg.status = "done" => (calls' = calls /\ net' = net)]_vars

\* a server whose chain never ends, read under a cap of two pages
Wit_C11_CappedEndlessChain ==
  /\ pg.status = "done"
  /\ srv.style = "cycle"
  /\ Len(srv.sizes) = 1
  /\ pg.limit_pages = Some(2)
  /\ Truthy(pg.url)
  /\ calls = 2
  /\ pg.pages_fetched = 2

\* C27: paginate() never uses the cache: each of its request() calls has
\* use_cache off, finds no entry and sends no If-None-Match, every page it
\* yields items from is the response of the network request just made, and
\* no step of a pagination changes the in-memory cache or the cache file.
Thm_C27_PaginateBypassesCache ==
  [][/\ cache' = cache
     /\ file' = file
     /\ calls' # calls
          => /\ ~call'.use_cache
             /\ ~call'.cached.present
             /\ "If-None-Match" \notin DOMAIN call'.req_headers
     /\ pg'.pages_fetched # pg.pages_fetched
          => /\ result.kind = "return"
             /\ ~result.from_cache
             /\ net >= 1
             /\ result.data = DataOf(call.url, call.last.r)]_vars

\* a client whose cache holds a fresh entry for the first page has read
\* three pages to the end: the entry is still the only one, and the items
\* are the server's
Wit_C27_WarmCacheUntouched ==
  /\ pg.status = "done"
  /\ pg.pages_fetched = 3
  /\ pg.clean
  /\ DOMAIN cache = {_cache_key(FirstUrl, ACCEPT_JSON)}
  /\ cache[_cache_key(FirstUrl, ACCEPT_JSON)].etag = E2
  /\ file \in PageFiles
  /\ file.exists
  /\ srv.sizes = <<2, 2, 2>>
  /\ pg.yielded = <<11, 12, 21, 22, 31, 32>>

(***************************************************************************)
(* Claims about loading the cache (checked under SpecLoad).                *)
(***************************************************************************)
\* the file does not hold a JSON object of well-formed CacheEntry records
Undeserializable(f) ==
  /\ f.exists
  /\ \/ f.kind # "map"
     \/ \E k \in DOMAIN f.raw : f.raw[k].shape # "ok"

\* C6 as stated: whatever undeserializable content the cache file has, the
\* construction of a caching client completes without raising and the
\* client starts with an empty in-memory cache.
Orig_C6_LoadNeverFails ==
  (pc # "new" /\ cfg.args.cache_enabled /\ cfg.args.cache_path
   /\ Undeserializable(file))
  => (pc = "idle" /\ result.kind = "none" /\ cache = EmptyDict)

(***************************************************************************)
(* Claims about _build_url (checked under SpecUrl).                        *)
(***************************************************************************)
\* two item lists are orderings of the same dict
SameDict(p, q) ==
  /\ Len(p) = Len(q)
  /\ {p[i] : i \in 1..Len(p)} = {q[i] : i \in 1..Len(q)}

\* the keys of an item list ascend in code point order
KeysAscending(q) ==
  \A i, j \in 1..Len(q) : i < j => StrLess(q[i][1], q[j][1])

\* C12: every ordering of the same parameter map gives, for the same path,
\* the same URL (and so the same cache key), and that URL lists the
\* parameters with their keys in ascending order.
Thm_C12_ParamOrderIrrelevant ==
  u_url.present =>
    \A q \in UrlParams :
      SameDict(q, u_params) =>
        /\ _build_url(u_path, q) = u_url.v
        /\ _cache_key(_build_url(u_path, q), ACCEPT_JSON)
             = _cache_key(u_url.v, ACCEPT_JSON)
        /\ KeysAscending(q) /\ Len(q) > 0 =>
             u_url.v = _build_url(u_path, <<>>) \o <<"?">> \o UrlEncode(q)

\* {b: 2, a: 1} gives the URL of {a: 1, b: 2}
Wit_C12_ReversedOrder ==
  /\ u_url.present
  /\ u_path = <<"/", "r">>
  /\ u_params = << <<<<"b">>, <<"2">>>>, <<<<"a">>, <<"1">>>> >>
  /\ u_url.v = BASE_URL \o <<"/", "r", "?", "a", "=", "1", "&", "b", "=", "2">>

\* the path is already an absolute http(s) URL
AbsoluteUrl(path) == Len(path) > 0 /\ path[1] \in {"http://", "https://"}

\* the items of a dict by ascending key
ItemsAscending(p) == CHOOSE q \in UrlParams : SameDict(q, p) /\ KeysAscending(q)

\* C22 as stated: an absolute http(s) URL is used verbatim whatever params
\* are passed; only a relative path is joined to the base URL and gets the
\* sorted query string appended.
Orig_C22_AbsoluteVerbatim ==
  u_url.present =>
    IF AbsoluteUrl(u_path)
    THEN u_url.v = u_path
    ELSE u_url.v = BASE_URL \o <<"/">> \o LStripSlash(u_path)
                   \o (IF Len(u_params) > 0
                       THEN <<"?">> \o UrlEncode(ItemsAscending(u_params))
                       ELSE <<>>)

(***************************************************************************)
(* Claims about a client constructed over a cache file (checked under      *)
(* SpecReload).                                                            *)
(***************************************************************************)
\* f holds entries, all of them well-formed and older than the maximum age
\* at time t
AllOld(f, t) ==
  /\ f.exists
  /\ f.kind = "map"
  /\ DOMAIN f.raw # {}
  /\ \A k \in DOMAIN f.raw :
       f.raw[k].shape = "ok" /\ t - f.raw[k].e.saved_at_epoch > MaxAge

\* C13: a client constructed over a cache file whose entries are all older
\* than the maximum age is the client constructed over an empty cache: it
\* has the same attributes and an empty in-memory cache, its first call
\* finds no entry and sends no If-None-Match (none but one its caller
\* passed in headers), and what that call returns is
\* the response of the server, never the content of an entry.
Thm_C13_StaleFileIsColdStart ==
  [][AllOld(file, now) =>
       /\ pc = "new" =>
            /\ pc' = "idle"
            /\ cache' = EmptyDict
            /\ cache' = Construct(cfg.args, cfg.environ, MapFile(EmptyDict), now).cache
            /\ cfg' = Construct(cfg.args, cfg.environ, MapFile(EmptyDict), now).cfg
            /\ cfg' = Construct(cfg.args, cfg.environ, NoFile, now).cfg
       /\ (pc = "idle" /\ calls = 0) =>
            /\ ~call'.cached.present
            /\ NoValidatorFromCache(call')
       /\ (pc = "attempting" /\ calls = 1) =>
            /\ result'.kind = "return" =>
                 /\ ~result'.from_cache
                 /\ result'.data = DataOf(call.url, call'.last.r)
            /\ (call'.last.present /\ call'.last.r.status = 304
                /\ 304 \notin call.expected) =>
                 result'.kind = "GitHubHTTPError"]_vars

\* the file holds an old entry under the key of the first call, the server
\* answers 304, and the call fails as it does on a cold client
Wit_C13_OldEntryNotModified ==
  /\ AllOld(file, now)
  /\ pc = "idle"
  /\ calls = 1
  /\ cfg.cache_enabled
  /\ call.use_cache
  /\ call.key \in DOMAIN file.raw
  /\ result.kind = "GitHubHTTPError"
  /\ result.data.status_code = 304

\* C18: on a client whose caching is off, by cache_enabled = False or by
\* cache_path = None, the in-memory cache is empty after construction and
\* stays empty, no call finds an entry or sends an If-None-Match (none but
\* one its caller passed in headers), and no
\* step (construction, request, close) creates or changes the cache file.
Thm_C18_DisabledCacheIsInert ==
  [][/\ (pc = "new" /\ ~(cfg.args.cache_enabled /\ cfg.args.cache_path))
          => (~cfg'.cache_enabled /\ cache' = EmptyDict /\ file' = file)
     /\ (pc # "new" /\ ~cfg.cache_enabled)
          => /\ cache = EmptyDict
             /\ cache' = EmptyDict
             /\ file' = file
             /\ ~cfg'.cache_enabled
             /\ ~call'.cached.present
             /\ NoValidatorFromCache(call')
             /\ ~result'.from_cache]_vars

\* a client without a cache path, beside a file that holds a fresh entry
\* for GET /r, has made two calls; the second, a GET with use_cache on, has
\* returned a response with an ETag
Wit_C18_NoPathTwoCalls ==
  /\ pc = "idle"
  /\ cfg.args.cache_enabled
  /\ ~cfg.args.cache_path
  /\ calls = 2
  /\ IsGet(call.method)
  /\ call.use_cache
  /\ file.exists
  /\ call.key \in DOMAIN file.raw
  /\ now - file.raw[call.key].e.saved_at_epoch < MaxAge
  /\ result.kind = "return"
  /\ result.data.headers = "ETag" :> E2
  /\ cache = EmptyDict

\* the step is an attempt of a call that found a cache entry, answered 304
NotModifiedStep ==
  /\ pc = "attempting"
  /\ net' = net + 1
  /\ call.cached.present
  /\ call'.last.present
  /\ call'.last # call.last
  /\ call'.last.r.status = 304

\* C24: a 304 for a call that found a cache entry ends the call with the
\* status, headers and body of that entry, and writes nothing: the entry of
\* the key (ETag and saved_at included), every other entry and the cache
\* file are as they were before the call.
Thm_C24_NotModifiedWritesNothing ==
  [][NotModifiedStep
     => /\ pc' = "idle"
        /\ result'.kind = "return"
        /\ result'.data.status_code = call.cached.e.status_code
        /\ result'.data.headers = call.cached.e.headers
        /\ result'.data.text = call.cached.e.body_text
        /\ cache' = cache
        /\ cache'[call.key] = call.cached.e
        /\ file' = file]_vars

\* a client that loaded two entries has been answered 304 for one of them,
\* with 304 among the expected statuses: both entries and the file are
\* what the construction found
Wit_C24_TwoEntriesKept ==
  /\ pc = "idle"
  /\ calls = 1
  /\ result.kind = "return"
  /\ result.from_cache
  /\ call.last.r.status = 304
  /\ 304 \in call.expected
  /\ DOMAIN cache = FileKeys
  /\ \A k \in FileKeys : cache[k] = file.raw[k].e
  /\ cache[call.key].saved_at_epoch = LoadTime - (MaxAge - 1)
  /\ result.data.text = B1

\* the file f is the JSON object of the in-memory cache c, key by key
Mirrors(f, c) ==
  /\ f.exists
  /\ f.kind = "map"
  /\ DOMAIN f.raw = DOMAIN c
  /\ \A k \in DOMAIN c : f.raw[k].e = c[k]

\* C25: a step of request() that stores a cache entry ends the call with a
\* return, and after it the cache file holds exactly the in-memory cache,
\* the new entry under the call's key included; a close() that follows
\* finds nothing left to write.
Thm_C25_WriteThrough ==
  [][/\ (pc = "attempting" /\ cache' # cache)
          => /\ pc' = "idle"
             /\ result'.kind = "return"
             /\ Mirrors(file', cache')
             /\ call.key \in DOMAIN cache'
             /\ cache'[call.key].etag = call'.last.r.headers["ETag"]
             /\ cache'[call.key].body_text = result'.data.text
             /\ \A k \in DOMAIN cache \ {call.key} : cache'[k] = cache[k]
     /\ (pc = "idle" /\ calls' = calls /\ Mirrors(file, cache))
          => file' = file]_vars

\* a client that loaded two entries has replaced one of them: the file
\* holds the new entry and the entry the call did not touch
Wit_C25_OverwrittenEntryOnDisk ==
  /\ pc = "idle"
  /\ calls = 1
  /\ result.kind = "return"
  /\ ~result.from_cache
  /\ call.cached.present
  /\ call.cached.e.etag = E1
  /\ DOMAIN cache = FileKeys
  /\ cache[call.key].etag = E2
  /\ Mirrors(file, cache)
  /\ file.raw[call.key].e.body_text = B2
  /\ file.raw[<<"k">>].e.etag = E1

(***************************************************************************)
(* Claims about compute_staleness (checked under SpecStaleness).           *)
(***************************************************************************)
\* s is a date written YYYY-MM-DD: four digits, two digits, two digits
IsYmd(s) ==
  /\ Len(s) = 10
  /\ s[5] = "-" /\ s[8] = "-"
  /\ \A i \in {1, 2, 3, 4, 6, 7, 9, 10} : IsDigit(s[i])

\* the days from a date written YYYY-MM-DD to 2026-01-14, by the calendar;
\* -1000 when the calendar has no such date
CalendarDays(s) ==
  CASE s = <<"2","0","2","6","-","0","1","-","1","4">> -> 0
    [] s = <<"2","0","2","6","-","0","1","-","0","1">> -> 13
    [] s = <<"2","0","2","5","-","1","1","-","0","1">> -> 74
    [] s = <<"2","0","2","5","-","1","0","-","3","1">> -> 75
    [] s = <<"2","0","2","5","-","1","0","-","1","7">> -> 89
    [] s = <<"2","0","2","5","-","1","0","-","1","6">> -> 90
    [] s = <<"2","0","2","4","-","0","2","-","2","9">> -> 685
    [] s = <<"2","0","2","6","-","0","2","-","0","1">> -> 0 - 18
    [] OTHER -> 0 - 1000

\* last_touched is there and is a valid date written YYYY-MM-DD
ValidLastTouched(repo) ==
  /\ repo.status = "map"
  /\ repo.last_touched.kind = "str"
  /\ IsYmd(repo.last_touched.s)
  /\ CalendarDays(repo.last_touched.s) # 0 - 1000

\* the result the claim gives for one repo
ClaimedStaleness(repo, r, warning_days, critical_days) ==
  IF ~ValidLastTouched(repo)
  THEN r.severity = "critical" /\ ~r.days_stale.present
  ELSE LET d == CalendarDays(repo.last_touched.s)
       IN /\ r.days_stale = [present |-> TRUE, v |-> d]
          /\ r.severity = IF d >= critical_days THEN "critical"
                          ELSE IF d >= warning_days THEN "warning"
                          ELSE "ok"

\* C19 as stated: compute_staleness returns one result per repo, in input
\* order, critical without days_stale when last_touched is missing or not a
\* valid YYYY-MM-DD date, and else critical, warning or ok by the days up
\* to today against the two inclusive thresholds.
Orig_C19_SeverityPerRepo ==
  st_out.present
  => /\ st_out.raised = "none"
     /\ Len(st_out.results) = Len(st_repos)
     /\ \A i \in 1..Len(st_repos) :
          i <= Len(st_out.results)
          => ClaimedStaleness(st_repos[i], st_out.results[i],
                              st_thresholds[1], st_thresholds[2])

(***************************************************************************)
(* Claims about processes that share a cache path (checked under           *)
(* SpecShared).                                                            *)
(***************************************************************************)
\* no process is inside _save_cache
Quiet == \A p \in Procs : sh_pc[p] \notin {"writing", "closing"}

\* C26 as stated: two processes that share a cache path load the file once
\* and rewrite it in full from their own map on every cache write and on
\* close(); under any interleaving the file ends up equal to the in-memory
\* map of the last writer, so what the other process wrote after the last
\* writer's load is lost.
Orig_C26_LastWriterWins ==
  (Quiet /\ sh_writer # 0) => Mirrors(sh_file, sh_cache[sh_writer])

====
